---- MODULE Spec2Model ----
(***************************************************************************)
(* A model of the bracket virtual machine (src/src/vm/vm.c, vm.h): the     *)
(* state set up by init_bvm, the dispatch loop of execute_bvm with one     *)
(* action per opcode case, and the way main ends the process.              *)
(*                                                                         *)
(* Conventions.                                                            *)
(*  - C arrays are 0-indexed, TLA+ sequences 1-indexed: At(s, i) is s[i].  *)
(*  - A 32-bit word (uint32_t / int32_t) is held as its two's-complement   *)
(*    int32 reading, so UINT32_MAX is -1 and unsigned comparisons go       *)
(*    through ULt / UGe.  Counters the code only counts up from 0          *)
(*    (env_count, frame_count, stack.top) are held as naturals.            *)
(*  - data of the value stack is kept up to its high-water mark: slots     *)
(*    above top keep their stale contents, as the C array does.            *)
(*  - An access the C standard leaves undefined (an index outside its      *)
(*    table, an uninitialised argument, a division by zero) is a choice    *)
(*    between the process being killed by a signal and the access giving   *)
(*    some value of a small Garbage set.  An out-of-range store is a       *)
(*    choice between the signal and a store that lands outside every       *)
(*    object of the model.                                                 *)
(***************************************************************************)
EXTENDS Integers, Sequences, FiniteSets, TLC

VARIABLES
    bin,            \* the bytes of the file (read_file's buffer)
    reader,         \* init_bvm_program's Reader over bin, see NewReader
    sections,       \* bvm->sections: the section table as read
    section_idx,    \* the index i of init_bvm_program's section loop
    program,        \* const BVMProgram* program (immutable after load)
    phase,          \* "magic" | "header" | "sections" (init_bvm_program),
                    \* "init" | "exec" | "exited" | "killed"
    exit_code,      \* <<status>> once the process has exited, <<>> before
    pc,             \* execute_bvm's pc, as an index into bytecode
    last_pc,        \* index of the instruction dispatched last (-1: none yet)
    calls,          \* history: the CALLs that entered a procedure and have
                    \* not returned, each [pc, env, frames] at its dispatch
    stack,          \* BVMStack: [capacity, top, data]
    frame_count, frame_capacity, frames,
    env_count, env_capacity, envs,
    current_env, global_env,
    halted, error

vars == <<bin, reader, sections, section_idx, program, phase, exit_code, pc,
          last_pc, calls, stack, frame_count, frame_capacity, frames, env_count,
          env_capacity, envs, current_env, global_env, halted, error>>

\* what init_bvm_program works on, apart from the Program it fills
load_vars == <<bin, reader, sections, section_idx>>

vm_vars == <<stack, frame_count, frame_capacity, frames, env_count,
             env_capacity, envs, current_env, global_env, halted, error>>

(***************************************************************************)
(* Bounds of the model.                                                    *)
(***************************************************************************)
\* alloc_env is taken only while env_count < MaxEnvs (the store is unbounded
\* in the code); this also bounds the depth of the frame stack.
MaxEnvs == 5
\* the same bound for the programs that recurse past the initial capacity of
\* the environment and frame stores
MaxDeepEnvs == 70

(***************************************************************************)
(* Program constants.                                                      *)
(***************************************************************************)
EXIT_OK == 0
EXIT_FAILURE == 1
EXIT_FILE_READ == 2
EXIT_READ_OUT_OF_BOUNDS == 3
EXIT_INVALID_MAGIC == 4
UINT32_MAX == -1
\* The sentinel entry_pc of a primitive; its #define is not in vm.h.
BVM_PRIMITIVE_ENTRY == UINT32_MAX

TAG_INT == 1
TAG_FLOAT == 2
TAG_SYM == 3
TAG_STR == 4
TAG_BOOL == 5
TAG_NIL == 6
TAG_PAIR == 7
TAG_PROC == 8
TAG_IDENT == 9

OP_RETURN == 0
OP_LOAD_CONST == 1
OP_LOAD_VAR == 2
OP_STORE_VAR == 3
OP_JMP == 4
OP_JMP_TRUE == 5
OP_JMP_FALSE == 6
OP_LABEL == 7
OP_CALL == 8
OP_TAILCALL == 9
OP_MAKE_CLOSURE == 10
OP_LOAD_CLOSURE == 11
OP_STORE_CLOSURE == 12
OP_POP == 13
OP_HALT == 14
OP_ADD == 15
OP_SUB == 16
OP_MUL == 17
OP_DIV == 18
OP_NEG == 19
OP_AND == 20
OP_OR == 21
OP_NOT == 22
OP_XOR == 23
OP_CMP_EQ == 24
OP_CMP_LT == 25
OP_CMP_GT == 26

\* BVMPrimitiveKind, numbered in the order primitive_of_proc returns them
\* (its enum is not in vm.h)
PRIM_ADD == 0
PRIM_SUB == 1
PRIM_MUL == 2
PRIM_DIV == 3
PRIM_CMP_EQ == 4
PRIM_CMP_LT == 5
PRIM_CMP_GT == 6
PRIM_NOT == 7

ARRAY_GROW_FACTOR == 2
STACK_CAPACITY == 256
ENV_CAPACITY == 64
FRAME_CAPACITY == 64

(***************************************************************************)
(* Words and bytes.                                                        *)
(***************************************************************************)
At(s, i) == s[i + 1]

\* a < b and a >= b on uint32_t words held as int32 readings
ULt(a, b) == IF (a < 0) = (b < 0) THEN a < b ELSE b < 0
UGe(a, b) == ~ULt(a, b)

\* (uint16_t)n
U16(n) == n % 65536

\* *(uint32_t*)data and *(int32_t*)data of a little-endian 4-byte run
Word32(data) ==
    data[1] + 256 * data[2] + 65536 * data[3]
      + 16777216 * (IF data[4] >= 128 THEN data[4] - 256 ELSE data[4])

\* the 4 little-endian bytes of a word (what a writer of the file emits)
LE32(n) == << n % 256, (n \div 256) % 256, (n \div 65536) % 256,
              (n \div 16777216) % 256 >>

(***************************************************************************)
(* Readers (Reader, read_uint8 .. read_bytes, skip_bytes).  A reader is    *)
(* held by offsets from its start: cur, end; val is what the last read     *)
(* returned; refused tells that a read failed its bounds check and        *)
(* invalid that read_datum met an invalid tag (the code exits at both);    *)
(* beyond tells that some read took a byte at or after the length of the   *)
(* buffer it reads.                                                        *)
(***************************************************************************)
NewReader(size) ==
    [cur |-> 0, end |-> size, val |-> 0, refused |-> FALSE,
     invalid |-> FALSE, beyond |-> FALSE]

\* the code has exited inside an earlier read
stopped(r) == r.refused \/ r.invalid

\* p[k] for a reader at r.cur over buf; a byte outside buf reads as 0
ByteAt(buf, i) == IF i >= 0 /\ i < Len(buf) THEN buf[i + 1] ELSE 0

\* a bounds test that lets a read end one byte after the end
past_end_by_two(r, n) == n < 0 \/ r.cur + n > r.end + 1

\* the bounds test of every read: r->cur + n > r->end, n a size_t (a word
\* of 2^31 or more exceeds every buffer of the model)
past_end(r, n) == n < 0 \/ r.cur + n > r.end

\* read_bytes(r, n): the n bytes at cur, as a sequence
read_bytes(buf, r, n) ==
    IF stopped(r) THEN r
    ELSE IF past_end(r, n) THEN [r EXCEPT !.refused = TRUE]
    ELSE [r EXCEPT !.cur = @ + n,
                   !.val = [k \in 1..n |-> ByteAt(buf, r.cur + k - 1)],
                   !.beyond = @ \/ (n > 0 /\ r.cur + n > Len(buf))]

\* read_uint8, read_uint16, read_uint32: little-endian, val is the number
\* (a uint32_t as its int32 reading)
read_uint8(buf, r) ==
    LET b == read_bytes(buf, r, 1)
    IN  IF stopped(b) THEN b ELSE [b EXCEPT !.val = b.val[1]]
read_uint16(buf, r) ==
    LET b == read_bytes(buf, r, 2)
    IN  IF stopped(b) THEN b ELSE [b EXCEPT !.val = b.val[1] + 256 * b.val[2]]
read_uint32(buf, r) ==
    LET b == read_bytes(buf, r, 4)
    IN  IF stopped(b) THEN b ELSE [b EXCEPT !.val = Word32(b.val)]

\* skip_bytes(r, n): no bounds test
skip_bytes(r, n) == IF stopped(r) THEN r ELSE [r EXCEPT !.cur = @ + n]

\* reader.cur = reader.start + offset for a uint32_t offset; an offset of
\* 2^31 or more is held as 2^30, past the end of every buffer of the model
seek(r, offset) == [r EXCEPT !.cur = IF offset >= 0 THEN offset ELSE 2^30]

(***************************************************************************)
(* Values (BVMValue).  as.i, as.b and as.closure share the union's bytes:  *)
(* i holds as.i, as.b is its low byte; a PROC holds the closure pair.      *)
(***************************************************************************)
ZeroValue == [tag |-> 0, i |-> 0]                       \* calloc'd slot
IntValue(n) == [tag |-> TAG_INT, i |-> n]
BoolValue(n) == [tag |-> TAG_BOOL, i |-> n]
ProcValue(p, e) == [tag |-> TAG_PROC, proc_idx |-> p, env_idx |-> e]
\* as.str: a length and the malloc'd bytes data points to
StrValue(len, bytes) == [tag |-> TAG_STR, len |-> len, data |-> bytes]
\* as.f, held as the 8 bytes of the double
FloatValue(bytes) == [tag |-> TAG_FLOAT, f |-> bytes]

as_i(v) == v.i
\* a condition read as the whole of as.i instead of its low byte
as_b_whole_word(v) ==
    IF v.tag \in {TAG_PROC, TAG_STR, TAG_FLOAT} THEN 0 ELSE v.i
as_b(v) ==
    CASE v.tag = TAG_PROC -> v.proc_idx % 256
      [] v.tag = TAG_STR -> v.len % 256
      [] v.tag = TAG_FLOAT -> v.f[1]
      [] OTHER -> v.i % 256

(***************************************************************************)
(* Outcomes of undefined accesses.                                         *)
(***************************************************************************)
\* as.i of an argument slot that was never written
GarbageInts == {0, 1}
\* a BVMValue read outside a slots array: any bytes, among them ones that
\* look like a PROC whose env_idx names no environment
GarbageValues == {ZeroValue, IntValue(1), ProcValue(PRIM_NOT + 1, ENV_CAPACITY)}
\* a BVMProcedure read outside the procedure table
GarbageProcs ==
    {[entry_pc |-> 0, arity |-> 0, local_count |-> 0, free_count |-> 0,
      free_vars |-> <<>>]}
\* a BVMConstant read outside the constant pool
GarbageConsts ==
    {[tag |-> 0, size |-> 0, data |-> <<>>],
     [tag |-> TAG_INT * 8, size |-> 4, data |-> <<1, 0, 0, 0>>]}
\* bytes of the union a BOOL compound literal leaves unspecified (those of
\* as.i above as.b), scaled to as.i
UnspecifiedPad == {0, 256}

\* whether an undefined access kills the process (only when it is undefined)
Faults(undefined) == IF undefined THEN BOOLEAN ELSE {FALSE}

(***************************************************************************)
(* The value stack (pop_stack, push_stack).                                *)
(***************************************************************************)
\* pop_stack's guard: top == 0 is "stack underflow", exit(EXIT_FAILURE)
pop_ok(s) == s.top # 0
\* the value pop_stack returns, data[--top]
pop_value(s) == s.data[s.top]
\* the stack pop_stack leaves
pop_stack(s) == [s EXCEPT !.top = s.top - 1]

\* push_stack's guard: top >= capacity is "stack overflow", exit(EXIT_FAILURE)
\* the capacity test of push_stack off by one: a push at top = capacity passes
push_ok_off_by_one(s) == ~(s.top > s.capacity)
push_ok(s) == ~(s.top >= s.capacity)
\* the stack push_stack leaves: data[top++] = val
push_stack(s, val) ==
    [s EXCEPT !.top = s.top + 1,
              !.data = IF s.top < Len(s.data)
                       THEN [s.data EXCEPT ![s.top + 1] = val]
                       ELSE Append(s.data, val)]

\* the n values on top of the stack in the order they were pushed: what the
\* CALL loop leaves in args[0..n-1] (n <= top)
top_values(s, n) == [k \in 1..n |-> s.data[s.top - n + k]]

(***************************************************************************)
(* Primitives (primitive_of_proc, execute_primitive).                      *)
(***************************************************************************)
\* primitive_of_proc: the table index is the primitive; any other index is
\* "unknown primitive procedure index", exit(EXIT_FAILURE)
primitive_known(proc_idx) == proc_idx \in PRIM_ADD..PRIM_NOT
primitive_of_proc(proc_idx) == proc_idx

\* C's int64 division truncates toward zero
c_div(a, b) ==
    IF (a >= 0) = (b > 0)
    THEN (IF a >= 0 THEN a ELSE -a) \div (IF b > 0 THEN b ELSE -b)
    ELSE -((IF a >= 0 THEN a ELSE -a) \div (IF b > 0 THEN b ELSE -b))

\* how many elements of args execute_primitive reads
primitive_reads(prim) == IF prim = PRIM_NOT THEN 1 ELSE 2

\* a primitive table in which every binary primitive adds
execute_primitive_all_add(prim, a, b) ==
    IF prim = PRIM_NOT THEN BoolValue(IF a = 0 THEN 1 ELSE 0)
    ELSE IntValue(a + b)

\* execute_primitive on args[0].as.i = a, args[1].as.i = b (b # 0 for PRIM_DIV)
execute_primitive(prim, a, b) ==
    CASE prim = PRIM_ADD -> IntValue(a + b)
      [] prim = PRIM_SUB -> IntValue(a - b)
      [] prim = PRIM_MUL -> IntValue(a * b)
      [] prim = PRIM_DIV -> IntValue(c_div(a, b))
      [] prim = PRIM_CMP_EQ -> BoolValue(IF a = b THEN 1 ELSE 0)
      [] prim = PRIM_CMP_LT -> BoolValue(IF a < b THEN 1 ELSE 0)
      [] prim = PRIM_CMP_GT -> BoolValue(IF a > b THEN 1 ELSE 0)
      [] prim = PRIM_NOT -> BoolValue(IF a = 0 THEN 1 ELSE 0)

\* the name init_bvm binds primitive prim to, as bytes
prim_name(prim) ==
    CASE prim = PRIM_ADD -> <<43>>
      [] prim = PRIM_SUB -> <<45>>
      [] prim = PRIM_MUL -> <<42>>
      [] prim = PRIM_DIV -> <<47>>
      [] prim = PRIM_CMP_EQ -> <<61>>
      [] prim = PRIM_CMP_LT -> <<60>>
      [] prim = PRIM_CMP_GT -> <<62>>
      [] prim = PRIM_NOT -> <<110, 111, 116>>

(***************************************************************************)
(* Constants to values (make_value_from_constant).                         *)
(***************************************************************************)
\* tag >> 3
kind_of(tag) == tag \div 8

\* whether make_value_from_constant has a case for the kind of c; any
\* other tag is "invalid constant tag", exit(EXIT_FAILURE)
constant_known(c) ==
    kind_of(c.tag) \in {TAG_INT, TAG_FLOAT, TAG_SYM, TAG_IDENT, TAG_BOOL,
                        TAG_NIL, TAG_STR}

\* bytes a read past the end of a constant's data may find
GarbageBytes == {0, 1}

\* TAG_STR: len = *(uint16_t*)c->data, the first two bytes of the data
str_lens(c) ==
    IF c.size >= 2 THEN {c.data[1] + 256 * c.data[2]}
    ELSE IF c.size = 1 THEN {c.data[1] + 256 * g : g \in GarbageBytes}
    ELSE GarbageBytes

\* TAG_STR: memcpy(data, c->data + sizeof(uint16_t), len), with g for each
\* byte that lies outside c->data
str_bytes(c, len, g) ==
    [k \in 1..len |-> IF 2 + k <= c.size THEN c.data[2 + k] ELSE g]

\* whether make_value_from_constant(c) reads outside c->data: a STR whose
\* data is shorter than the length prefix it is read with, a FLOAT of fewer
\* than 8 bytes
constant_reads_outside(c) ==
    CASE kind_of(c.tag) = TAG_STR ->
            c.size < 2 \/ 2 + c.data[1] + 256 * c.data[2] > c.size
      [] kind_of(c.tag) = TAG_FLOAT -> c.size < 8
      [] OTHER -> FALSE

\* the values make_value_from_constant(c) can return: one, but for a BOOL,
\* whose as.i has unspecified bytes above as.b
make_value_from_constant(c) ==
    CASE kind_of(c.tag) = TAG_INT -> {IntValue(Word32(c.data))}
      [] kind_of(c.tag) = TAG_SYM -> {[tag |-> TAG_SYM, i |-> Word32(c.data)]}
      [] kind_of(c.tag) = TAG_IDENT ->
            {[tag |-> TAG_IDENT, i |-> Word32(c.data)]}
      [] kind_of(c.tag) = TAG_BOOL ->
            {BoolValue((c.tag % 2) + pad) : pad \in UnspecifiedPad}
      [] kind_of(c.tag) = TAG_NIL -> {[tag |-> TAG_NIL, i |-> 0]}
      [] kind_of(c.tag) = TAG_FLOAT ->
            {FloatValue([k \in 1..8 |-> IF k <= c.size THEN c.data[k] ELSE g]) :
               g \in GarbageBytes}
      [] kind_of(c.tag) = TAG_STR ->
            {StrValue(len, str_bytes(c, len, g)) :
               len \in str_lens(c), g \in GarbageBytes}

(***************************************************************************)
(* Environments (alloc_env) and symbols (symbol_id_of).                    *)
(***************************************************************************)
\* the capacity alloc_env leaves: doubled when the store is full
grow_capacity(count, capacity) ==
    IF count >= capacity THEN capacity * ARRAY_GROW_FACTOR ELSE capacity

\* the environment alloc_env(bvm, parent, size) appends: size is a uint16_t,
\* slots are calloc'd
new_env(parent, size) ==
    [parent |-> parent, size |-> size, slots |-> [k \in 1..size |-> ZeroValue]]

\* strncmp(s1, s2, n) == 0, from character k on: s1 is a symbol's name_len
\* bytes, s2 a NUL-terminated primitive name
RECURSIVE strncmp_eq(_, _, _, _)
strncmp_eq(s1, s2, n, k) ==
    IF k >= n THEN TRUE
    ELSE LET c1 == At(s1, k)
             c2 == IF k < Len(s2) THEN At(s2, k) ELSE 0
         IN  IF c1 # c2 THEN FALSE
             ELSE IF c1 = 0 THEN TRUE
             ELSE strncmp_eq(s1, s2, n, k + 1)

\* symbol_id_of from entry i on: the id of the first symbol strncmp accepts,
\* else -1
RECURSIVE symbol_id_from(_, _, _)
symbol_id_from(prog, name, i) ==
    IF i >= prog.symbol_count THEN -1
    ELSE IF strncmp_eq(At(prog.symbols, i).name, name,
                       At(prog.symbols, i).name_len, 0)
         THEN At(prog.symbols, i).id
         ELSE symbol_id_from(prog, name, i + 1)

symbol_id_of(prog, name) == symbol_id_from(prog, name, 0)

\* init_bvm's primitive loop from procedure i on, over the global slots.
\* Gives [status, slots]: "ok", "exit" (unknown primitive index or symbol
\* not found: exit(EXIT_FAILURE)) or "killed" (a store outside slots that
\* faults); a store outside slots that does not fault changes no slot.
RECURSIVE bind_primitives(_, _, _, _)
bind_primitives(prog, slots, i, fault) ==
    IF i >= prog.procedure_count THEN [status |-> "ok", slots |-> slots]
    ELSE IF At(prog.procedures, i).entry_pc # BVM_PRIMITIVE_ENTRY
    THEN bind_primitives(prog, slots, i + 1, fault)
    ELSE IF ~primitive_known(i) THEN [status |-> "exit", slots |-> slots]
    ELSE LET sym_id == symbol_id_of(prog, prim_name(primitive_of_proc(i)))
         IN  IF sym_id < 0 THEN [status |-> "exit", slots |-> slots]
             ELSE IF sym_id < Len(slots)
             THEN bind_primitives(prog,
                     [slots EXCEPT ![sym_id + 1] = ProcValue(i, UINT32_MAX)],
                     i + 1, fault)
             ELSE IF fault THEN [status |-> "killed", slots |-> slots]
             ELSE bind_primitives(prog, slots, i + 1, fault)

\* whether the primitive loop stores outside the global slots
RECURSIVE binds_outside(_, _)
binds_outside(prog, i) ==
    IF i >= prog.procedure_count THEN FALSE
    ELSE IF At(prog.procedures, i).entry_pc # BVM_PRIMITIVE_ENTRY
    THEN binds_outside(prog, i + 1)
    ELSE IF ~primitive_known(i) THEN FALSE
    ELSE LET sym_id == symbol_id_of(prog, prim_name(primitive_of_proc(i)))
         IN  IF sym_id < 0 THEN FALSE
             ELSE sym_id >= prog.symbol_count \/ binds_outside(prog, i + 1)

(***************************************************************************)
(* Programs: the tables init_bvm_program leaves for a file.                *)
(***************************************************************************)
\* read_datum's result for an INT datum holding n
IntDatum(n) == [tag |-> TAG_INT * 8, size |-> 4, data |-> LE32(n)]
\* constant-pool entries as the S_TAG_CONSTANT_POOL case builds them
IntConst(n) == [tag |-> TAG_INT * 8, size |-> 4, data |-> LE32(n)]
BoolConst(b) == [tag |-> TAG_BOOL * 8 + b, size |-> 1, data |-> <<b>>]
NilConst == [tag |-> TAG_NIL * 8, size |-> 0, data |-> <<>>]
\* a STR or FLOAT entry: tag, u16 size, size raw bytes
RawConst(kind, bytes) == [tag |-> kind * 8, size |-> Len(bytes), data |-> bytes]

\* decoded instructions with 0, 1 and 2 operand datums (op_arity)
I0(op) == [opcode |-> op, operand |-> <<>>]
I1(op, n) == [opcode |-> op, operand |-> <<IntDatum(n)>>]
I2(op, n, m) == [opcode |-> op, operand |-> <<IntDatum(n), IntDatum(m)>>]

Symbol(id, name) == [id |-> id, name_len |-> Len(name), name |-> name]
Procedure(entry, arity, locals, free_vars) ==
    [entry_pc |-> entry, arity |-> arity, local_count |-> locals,
     free_count |-> Len(free_vars), free_vars |-> free_vars]

Program(symbols, constants, procedures, bytecode) ==
    [symbol_count |-> Len(symbols), symbols |-> symbols,
     constant_count |-> Len(constants), constants |-> constants,
     procedure_count |-> Len(procedures), procedures |-> procedures,
     instruction_count |-> Len(bytecode), bytecode |-> bytecode]

\* the symbol table of the model's programs: the eight primitive names at
\* ids 0..7 and a global "x" at id 8
SYM_X == PRIM_NOT + 1
StdSymbols ==
    [k \in 1..8 |-> Symbol(k - 1, prim_name(k - 1))] \o <<Symbol(SYM_X, <<120>>)>>

\* the constant pool of the model's programs
StdConstants ==
    << IntConst(0), IntConst(1), IntConst(2), BoolConst(1), BoolConst(0),
       NilConst, IntConst(STACK_CAPACITY - 1),
       RawConst(TAG_STR, <<3, 0, 97, 98, 99>>), RawConst(TAG_STR, <<97, 98>>),
       RawConst(TAG_STR, <<2, 0, 97>>), RawConst(TAG_STR, <<>>),
       RawConst(TAG_FLOAT, <<0, 0, 0, 0, 0, 0, 240, 63>>),
       IntConst(ENV_CAPACITY + 1) >>
\* the pool index of constant c
ConstIdx(c) == CHOOSE k \in 0..(Len(StdConstants) - 1) : At(StdConstants, k) = c
C_INT0 == ConstIdx(IntConst(0))
C_INT1 == ConstIdx(IntConst(1))
C_INT2 == ConstIdx(IntConst(2))
C_TRUE == ConstIdx(BoolConst(1))
C_FALSE == ConstIdx(BoolConst(0))
C_NIL == ConstIdx(NilConst)
C_INT255 == ConstIdx(IntConst(STACK_CAPACITY - 1))
C_INT65 == ConstIdx(IntConst(ENV_CAPACITY + 1))
\* the STR and FLOAT entries of the pool
RawConstIdxs ==
    { k \in 0..(Len(StdConstants) - 1) :
        kind_of(At(StdConstants, k).tag) \in {TAG_STR, TAG_FLOAT} }
\* an index outside the pool
C_NONE == Len(StdConstants)

\* the procedure table: the eight primitives at indices 0..7, then one
\* bytecode procedure at index USER
USER == PRIM_NOT + 1
StdProcedures(user) ==
    [k \in 1..8 |-> Procedure(BVM_PRIMITIVE_ENTRY,
                              primitive_reads(k - 1), 0, <<>>)] \o <<user>>

\* main code followed by the body of procedure USER
ClosureProgram(main, body, arity, locals, free_vars) ==
    Program(StdSymbols, StdConstants,
            StdProcedures(Procedure(Len(main), arity, locals, free_vars)),
            main \o body)

MainCodes ==
    { << I2(OP_MAKE_CLOSURE, USER, 0), I1(OP_CALL, 0), I0(OP_HALT) >>,
      << I1(OP_LOAD_CONST, C_INT1), I2(OP_MAKE_CLOSURE, USER, 0),
         I1(OP_CALL, 0), I0(OP_HALT) >>,
      << I2(OP_MAKE_CLOSURE, USER, 0), I1(OP_LOAD_CONST, C_INT2),
         I1(OP_CALL, 1), I0(OP_HALT) >>,
      << I2(OP_MAKE_CLOSURE, USER, 0), I1(OP_CALL, 0), I0(OP_RETURN) >>,
      << I1(OP_LOAD_CONST, C_INT2), I1(OP_STORE_VAR, SYM_X),
         I2(OP_MAKE_CLOSURE, USER, 0), I1(OP_LOAD_CONST, C_INT1),
         I1(OP_STORE_VAR, SYM_X), I1(OP_CALL, 0), I0(OP_HALT) >>,
      << I2(OP_MAKE_CLOSURE, USER + 1, 0), I1(OP_CALL, 0), I0(OP_HALT) >>,
      << I1(OP_LOAD_CONST, C_INT1), I1(OP_LOAD_CONST, C_INT2),
         I2(OP_MAKE_CLOSURE, USER, 0), I1(OP_CALL, 0), I0(OP_POP),
         I0(OP_HALT) >>,
      << I2(OP_MAKE_CLOSURE, USER, 0), I1(OP_CALL, 0), I1(OP_CALL, 0),
         I0(OP_HALT) >> }

BodyCodes ==
    { << I1(OP_LOAD_CONST, C_INT2), I0(OP_RETURN) >>,
      << I1(OP_LOAD_CONST, C_INT1), I1(OP_LOAD_CONST, C_INT2), I0(OP_RETURN) >>,
      << I0(OP_POP), I1(OP_LOAD_CONST, C_INT2), I0(OP_RETURN) >>,
      << I0(OP_RETURN) >>,
      << I1(OP_LOAD_VAR, 0), I0(OP_RETURN) >>,
      << I2(OP_MAKE_CLOSURE, USER, 0), I1(OP_CALL, 0), I0(OP_RETURN) >>,
      << I1(OP_LOAD_CLOSURE, 0), I0(OP_RETURN) >>,
      << I1(OP_LOAD_CONST, C_INT1), I1(OP_STORE_CLOSURE, 0),
         I1(OP_LOAD_CLOSURE, 0), I0(OP_RETURN) >>,
      << I0(OP_HALT) >>,
      << I1(OP_LOAD_CONST, C_INT2), I1(OP_STORE_VAR, 0), I1(OP_LOAD_VAR, 0),
         I0(OP_RETURN) >>,
      << I1(OP_LOAD_CONST, C_TRUE), I1(OP_JMP_TRUE, 2), I1(OP_LABEL, 0),
         I1(OP_LOAD_CONST, C_INT1), I0(OP_RETURN) >> }

ClosurePrograms ==
    { ClosureProgram(main, body, arity, locals, fv) :
        main \in MainCodes, body \in BodyCodes, arity \in 0..1,
        locals \in 0..1, fv \in {<<>>, <<SYM_X>>, <<SYM_X + 1>>} }

\* a procedure of arity 1 whose local_count is the largest u16, called with
\* one argument
WidePrograms ==
    { ClosureProgram(<< I2(OP_MAKE_CLOSURE, USER, 0), I1(OP_LOAD_CONST, C_INT2),
                        I1(OP_CALL, 1), I0(OP_HALT) >>,
                     body, 1, U16(-1), <<>>) :
        body \in { << I1(OP_LOAD_VAR, 0), I0(OP_RETURN) >>,
                   << I1(OP_LOAD_CONST, C_INT1), I0(OP_RETURN) >> } }

\* f(f, n) = IF n = 0 THEN n ELSE f(f, n - 1), called with n = depth: the
\* procedure captures "-" and "=" and receives itself as its first argument
RecursiveProgram(depth) ==
    ClosureProgram(
      << I2(OP_MAKE_CLOSURE, USER, 0), I1(OP_STORE_VAR, SYM_X),
         I1(OP_LOAD_VAR, SYM_X), I1(OP_LOAD_VAR, SYM_X),
         I1(OP_LOAD_CONST, depth), I1(OP_CALL, 2), I0(OP_HALT) >>,
      << I1(OP_LOAD_CLOSURE, 1), I1(OP_LOAD_VAR, 1), I1(OP_LOAD_CONST, C_INT0),
         I1(OP_CALL, 2), I1(OP_JMP_TRUE, 9),
         I1(OP_LOAD_VAR, 0), I1(OP_LOAD_VAR, 0),
         I1(OP_LOAD_CLOSURE, 0), I1(OP_LOAD_VAR, 1), I1(OP_LOAD_CONST, C_INT1),
         I1(OP_CALL, 2), I1(OP_CALL, 2), I0(OP_RETURN),
         I1(OP_LOAD_VAR, 1), I0(OP_RETURN) >>,
      2, 0, <<PRIM_SUB, PRIM_CMP_EQ>>)
RecursivePrograms == { RecursiveProgram(C_INT2), RecursiveProgram(C_INT65) }

\* programs whose CALL or RETURN takes pc out of the bytecode: a procedure
\* whose entry_pc is the instruction count or a word of 2^31 or more, and a
\* CALL that is the last instruction
EdgePrograms ==
    { Program(StdSymbols, StdConstants,
              StdProcedures(Procedure(entry, 0, 0, <<>>)),
              << I2(OP_MAKE_CLOSURE, USER, 0), I1(OP_CALL, 0), I0(OP_HALT) >>) :
        entry \in {3, UINT32_MAX - 1} }
      \cup
    { Program(StdSymbols, StdConstants,
              StdProcedures(Procedure(1, 0, 0, <<>>)),
              << I1(OP_JMP, 3), I1(OP_LOAD_CONST, C_INT1), I0(OP_RETURN),
                 I2(OP_MAKE_CLOSURE, USER, 0), I1(OP_CALL, 0) >>) }

\* LOAD_VAR k; LOAD_CONST a for each a of args; CALL argc; HALT
PrimProgram(k, args, argc) ==
    Program(StdSymbols, StdConstants,
            StdProcedures(Procedure(0, 0, 0, <<>>)),
            <<I1(OP_LOAD_VAR, k)>>
              \o [j \in 1..Len(args) |-> I1(OP_LOAD_CONST, args[j])]
              \o <<I1(OP_CALL, argc), I0(OP_HALT)>>)

PrimArgs == {C_INT0, C_INT2, C_TRUE}
PrimPrograms ==
    { PrimProgram(k, args, Len(args)) :
        k \in PRIM_ADD..PRIM_NOT,
        args \in UNION { [1..n -> PrimArgs] : n \in 0..3 } }

\* Fills the stack with STACK_CAPACITY - 1 values in a counted loop, then
\* calls procedure USER with that stack below the callee's frame.
DeepProgram(body) ==
    LET main ==
          << I1(OP_LOAD_CONST, C_INT0), I1(OP_STORE_VAR, SYM_X),
             I1(OP_LOAD_CONST, C_NIL),
             I1(OP_LOAD_VAR, PRIM_ADD), I1(OP_LOAD_VAR, SYM_X),
             I1(OP_LOAD_CONST, C_INT1), I1(OP_CALL, 2),
             I1(OP_STORE_VAR, SYM_X),
             I1(OP_LOAD_VAR, PRIM_CMP_LT), I1(OP_LOAD_VAR, SYM_X),
             I1(OP_LOAD_CONST, C_INT255), I1(OP_CALL, 2),
             I1(OP_JMP_TRUE, -10),
             I2(OP_MAKE_CLOSURE, USER, 0), I1(OP_CALL, 0), I0(OP_HALT) >>
    IN  ClosureProgram(main, body, 0, 0, <<>>)

DeepPrograms ==
    { DeepProgram(<< I1(OP_LOAD_CONST, C_INT2), I0(OP_RETURN) >>),
      DeepProgram(<< I1(OP_LOAD_CONST, C_INT1), I1(OP_LOAD_CONST, C_INT2),
                     I0(OP_RETURN) >>) }

\* the arithmetic and comparison opcodes of BVMInstrCode
ArithmeticOpcodes == {OP_ADD, OP_SUB, OP_MUL, OP_DIV}
ComparisonOpcodes == {OP_CMP_EQ, OP_CMP_LT, OP_CMP_GT}

\* short programs, one per remaining case of the dispatch loop
PlainProgram(bytecode) ==
    Program(StdSymbols, StdConstants, StdProcedures(Procedure(0, 0, 0, <<>>)),
            bytecode)

PlainPrograms ==
    { PlainProgram(code) : code \in
        { << I0(OP_HALT) >>,
          << >>,
          << I1(OP_LOAD_CONST, C_INT1), I0(OP_HALT) >>,
          << I1(OP_LOAD_CONST, C_INT1) >>,
          << I1(OP_LOAD_CONST, C_INT1), I0(OP_RETURN) >>,
          << I0(OP_RETURN) >>,
          << I0(OP_POP) >>,
          << I1(OP_LOAD_CONST, C_INT0), I1(OP_JMP, -1) >>,
          << I1(OP_JMP, 0) >>,
          << I1(OP_JMP, 1), I0(OP_HALT) >>,
          << I1(OP_JMP, -1) >>,
          << I1(OP_LABEL, 0) >>,
          << I0(OP_ADD) >>,
          << I1(OP_LOAD_CONST, C_INT2), I1(OP_LOAD_CONST, C_INT0), I0(OP_DIV),
             I0(OP_HALT) >>,
          << I1(OP_TAILCALL, 0) >>,
          << I1(OP_LOAD_CONST, C_NONE), I0(OP_HALT) >>,
          << I1(OP_LOAD_VAR, SYM_X + 1) >>,
          << I1(OP_LOAD_VAR, -1) >>,
          << I1(OP_LOAD_CONST, C_INT1), I1(OP_STORE_VAR, SYM_X + 1) >>,
          << I1(OP_STORE_VAR, SYM_X) >>,
          << I1(OP_LOAD_CLOSURE, 0) >>,
          << I1(OP_LOAD_CONST, C_INT1), I1(OP_STORE_CLOSURE, 0), I0(OP_HALT) >>,
          << I1(OP_LOAD_CONST, C_INT1), I1(OP_CALL, 0), I0(OP_HALT) >>,
          << I1(OP_CALL, 0) >>,
          << I1(OP_LOAD_CONST, C_FALSE), I1(OP_JMP_FALSE, 3),
             I1(OP_LOAD_CONST, C_INT1), I1(OP_JMP, 2),
             I1(OP_LOAD_CONST, C_INT2), I0(OP_HALT) >>,
          << I1(OP_LOAD_CONST, C_TRUE), I1(OP_JMP_FALSE, 3),
             I1(OP_LOAD_CONST, C_INT1), I1(OP_JMP, 2),
             I1(OP_LOAD_CONST, C_INT2), I0(OP_HALT) >>,
          << I1(OP_LOAD_CONST, C_FALSE), I1(OP_JMP_TRUE, 2), I0(OP_HALT) >>,
          << I1(OP_JMP_TRUE, 1) >> }
          \cup { << I1(OP_LOAD_CONST, k), I0(OP_HALT) >> : k \in RawConstIdxs }
          \cup { << I1(OP_LOAD_CONST, C_INT2), I1(OP_LOAD_CONST, C_INT1),
                    I0(op), I0(OP_HALT) >> :
                    op \in ArithmeticOpcodes \cup ComparisonOpcodes } }

\* symbol tables that list the primitive names in other orders, at other
\* ids, and beside names strncmp may take for them: "no" (110 111), the
\* empty name, "+x" (43 120) and "nott"
PrimSymbols == [k \in 1..8 |-> Symbol(k - 1, prim_name(k - 1))]
ShiftedPrimSymbols == [k \in 1..8 |-> Symbol(k % 8, prim_name(k - 1))]
SymbolTables ==
    { PrimSymbols \o <<Symbol(SYM_X, <<110, 111>>)>>,
      <<Symbol(SYM_X, <<110, 111>>)>> \o PrimSymbols,
      <<Symbol(SYM_X, <<>>)>> \o PrimSymbols,
      PrimSymbols \o <<Symbol(SYM_X, <<>>)>>,
      <<Symbol(SYM_X, <<43, 120>>)>> \o PrimSymbols,
      <<Symbol(SYM_X, <<110, 111, 116, 116>>)>> \o PrimSymbols,
      <<Symbol(SYM_X, <<120>>)>> \o ShiftedPrimSymbols,
      [k \in 1..8 |-> PrimSymbols[9 - k]] \o <<Symbol(SYM_X, <<120>>)>>,
      [k \in 1..7 |-> PrimSymbols[k]] \o <<Symbol(SYM_X, <<120>>)>>,
      PrimSymbols \o <<Symbol(SYM_X + 1, <<120>>)>>,
      [PrimSymbols EXCEPT ![1] = Symbol(SYM_X + 1, <<43>>)]
        \o <<Symbol(SYM_X, <<120>>)>> }

\* LOAD_VAR k; HALT over each symbol table, with all eight primitives in
\* the procedure table or only the first four
SymbolPrograms ==
    { Program(symbols, StdConstants, procedures,
              << I1(OP_LOAD_VAR, k), I0(OP_HALT) >>) :
        symbols \in SymbolTables,
        procedures \in { StdProcedures(Procedure(0, 0, 0, <<>>)),
                         [j \in 1..4 |-> StdProcedures(Procedure(0, 0, 0, <<>>))[j]] },
        k \in {PRIM_ADD, PRIM_NOT, SYM_X} }

Programs ==
    ClosurePrograms \cup PrimPrograms \cup DeepPrograms \cup PlainPrograms
      \cup SymbolPrograms \cup WidePrograms \cup RecursivePrograms
      \cup EdgePrograms

\* the bound on env_count for the program that runs
env_bound == IF program \in RecursivePrograms THEN MaxDeepEnvs ELSE MaxEnvs

(***************************************************************************)
(* init_bvm: the state execute_bvm starts from.                            *)
(***************************************************************************)
(***************************************************************************)
(* init_bvm_program: the loader.  malloc is taken to succeed for the sizes *)
(* a file of the model asks for, malloc(0) included (glibc), except where  *)
(* alloc_fails says otherwise.                                             *)
(***************************************************************************)
BVM_MAGIC == 1414222402

S_TAG_SYMBOL_TABLE == 1
S_TAG_CONSTANT_POOL == 2
S_TAG_PROCEDURE_TABLE == 3
S_TAG_BYTECODE == 4
S_TAG_DEBUG_INFO == 16
S_TAG_VENDOR == 255

\* a comparison of the low half of the magic word only
magic_ok_low_half(magic) == magic % 65536 = BVM_MAGIC % 65536

\* magic != BVM_MAGIC, negated
magic_ok(magic) == magic = BVM_MAGIC

\* op_arity(op): the number of operand datums that follow the opcode
op_arity(op) ==
    CASE op \in {OP_RETURN, OP_POP, OP_HALT} -> 0
      [] op \in {OP_LOAD_CONST, OP_LOAD_VAR, OP_STORE_VAR, OP_JMP, OP_JMP_TRUE,
                 OP_JMP_FALSE, OP_LABEL, OP_CALL, OP_TAILCALL, OP_LOAD_CLOSURE,
                 OP_STORE_CLOSURE} -> 1
      [] op = OP_MAKE_CLOSURE -> 2
      [] OTHER -> 0

\* read_datum(r): val is the BVMConstant read
read_datum(buf, r) ==
    LET t == read_uint8(buf, r)
        tag == t.val
        kind == kind_of(tag)
    IN  IF stopped(t) THEN t
        ELSE IF kind \in {TAG_BOOL, TAG_NIL}
        THEN [t EXCEPT !.val = [tag |-> tag, size |-> 0, data |-> <<>>]]
        ELSE IF kind \in {TAG_IDENT, TAG_SYM, TAG_INT}
        THEN LET d == read_bytes(buf, t, 4)
             IN  IF stopped(d) THEN d
                 ELSE [d EXCEPT !.val = [tag |-> tag, size |-> 4, data |-> d.val]]
        ELSE IF kind = TAG_FLOAT
        THEN LET d == read_bytes(buf, t, 8)
             IN  IF stopped(d) THEN d
                 ELSE [d EXCEPT !.val = [tag |-> tag, size |-> 8, data |-> d.val]]
        ELSE IF kind = TAG_STR
        THEN LET length == read_uint16(buf, t)
                 d == read_bytes(buf, length, length.val)
             IN  IF stopped(d) THEN d
                 ELSE [d EXCEPT !.val =
                         [tag |-> tag, size |-> U16(length.val + 2),
                          data |-> <<length.val % 256, length.val \div 256>>
                                     \o d.val]]
        ELSE [t EXCEPT !.invalid = TRUE]

\* read_datums(r, count): val is the array of the count datums read
RECURSIVE read_datums_from(_, _, _, _)
read_datums_from(buf, r, count, acc) ==
    IF stopped(r) \/ Len(acc) >= count THEN [r EXCEPT !.val = acc]
    ELSE LET d == read_datum(buf, r)
         IN  IF stopped(d) THEN d
             ELSE read_datums_from(buf, d, count, Append(acc, d.val))
\* an array one datum short
read_datums_one_short(buf, r, count) == read_datums_from(buf, r, count - 1, <<>>)
read_datums(buf, r, count) == read_datums_from(buf, r, count, <<>>)

\* i < count for a size_t i and a uint32_t count
below(i, count) == count < 0 \/ i < count

\* the loop of the section table: tag, offset, size of each entry
RECURSIVE read_section_table(_, _, _, _)
read_section_table(buf, r, count, acc) ==
    IF stopped(r) \/ ~below(Len(acc), count) THEN [r EXCEPT !.val = acc]
    ELSE LET section_tag == read_uint8(buf, r)
             section_offset == read_uint32(buf, section_tag)
             section_size == read_uint32(buf, section_offset)
         IN  IF stopped(section_size) THEN section_size
             ELSE read_section_table(buf, section_size, count,
                    Append(acc, [tag |-> section_tag.val,
                                 offset |-> section_offset.val,
                                 size |-> section_size.val]))

\* the loop of S_TAG_SYMBOL_TABLE: id, length, name of each symbol
RECURSIVE read_symbols(_, _, _, _)
read_symbols(buf, r, count, acc) ==
    IF stopped(r) \/ ~below(Len(acc), count) THEN [r EXCEPT !.val = acc]
    ELSE LET id == read_uint32(buf, r)
             length == read_uint16(buf, id)
             data == read_bytes(buf, length, length.val)
         IN  IF stopped(data) THEN data
             ELSE read_symbols(buf, data, count,
                    Append(acc, [id |-> id.val, name_len |-> length.val,
                                 name |-> data.val]))

\* the loop of S_TAG_CONSTANT_POOL: a tag, and for other than BOOL and NIL
\* a u16 size and size bytes
RECURSIVE read_constants(_, _, _, _)
read_constants(buf, r, count, acc) ==
    IF stopped(r) \/ ~below(Len(acc), count) THEN [r EXCEPT !.val = acc]
    ELSE LET t == read_uint8(buf, r)
             tag == t.val
         IN  IF stopped(t) THEN t
             ELSE IF kind_of(tag) = TAG_BOOL
             THEN read_constants(buf, t, count,
                    Append(acc, [tag |-> tag, size |-> 1, data |-> <<tag % 2>>]))
             ELSE IF kind_of(tag) = TAG_NIL
             THEN read_constants(buf, t, count,
                    Append(acc, [tag |-> tag, size |-> 0, data |-> <<>>]))
             ELSE LET size == read_uint16(buf, t)
                      data == read_bytes(buf, size, size.val)
                  IN  IF stopped(data) THEN data
                      ELSE read_constants(buf, data, count,
                             Append(acc, [tag |-> tag, size |-> size.val,
                                          data |-> data.val]))

\* the loop over free_var_count u32 words of one procedure
RECURSIVE read_free_vars(_, _, _, _)
read_free_vars(buf, r, count, acc) ==
    IF stopped(r) \/ Len(acc) >= count THEN [r EXCEPT !.val = acc]
    ELSE LET w == read_uint32(buf, r)
         IN  IF stopped(w) THEN w
             ELSE read_free_vars(buf, w, count, Append(acc, w.val))

\* the loop of S_TAG_PROCEDURE_TABLE: entry, arity, locals, free variables
RECURSIVE read_procedures(_, _, _, _)
read_procedures(buf, r, count, acc) ==
    IF stopped(r) \/ ~below(Len(acc), count) THEN [r EXCEPT !.val = acc]
    ELSE LET entry == read_uint32(buf, r)
             arity == read_uint16(buf, entry)
             locals == read_uint16(buf, arity)
             free_var_count == read_uint16(buf, locals)
             free_vars == read_free_vars(buf, free_var_count,
                                         free_var_count.val, <<>>)
         IN  IF stopped(free_vars) THEN free_vars
             ELSE read_procedures(buf, free_vars, count,
                    Append(acc, [entry_pc |-> entry.val, arity |-> arity.val,
                                 local_count |-> locals.val,
                                 free_count |-> free_var_count.val,
                                 free_vars |-> free_vars.val]))

\* the counting pass over the bytecode bytes: an opcode and op_arity(opcode)
\* datums per instruction while count_r.cur < count_r.end; val is the count
RECURSIVE skip_datums(_, _, _)
skip_datums(buf, r, count) ==
    IF stopped(r) \/ count = 0 THEN r
    ELSE skip_datums(buf, read_datum(buf, r), count - 1)
RECURSIVE count_instructions(_, _, _)
count_instructions(buf, r, instruction_count) ==
    IF stopped(r) \/ ~(r.cur < r.end) THEN [r EXCEPT !.val = instruction_count]
    ELSE LET opcode == read_uint8(buf, r)
             args == skip_datums(buf, opcode, op_arity(opcode.val))
         IN  IF stopped(args) THEN args
             ELSE count_instructions(buf, args, instruction_count + 1)

\* the second pass: instruction_count instructions, each an opcode and
\* read_datums(op_arity(opcode)); val is the instruction array
RECURSIVE decode_instructions(_, _, _, _)
decode_instructions(buf, r, instruction_count, acc) ==
    IF stopped(r) \/ Len(acc) >= instruction_count THEN [r EXCEPT !.val = acc]
    ELSE LET opcode == read_uint8(buf, r)
             args == read_datums(buf, opcode, op_arity(opcode.val))
         IN  IF stopped(args) THEN args
             ELSE decode_instructions(buf, args, instruction_count,
                    Append(acc, [opcode |-> opcode.val, operand |-> args.val]))

(***************************************************************************)
(* Files: what a writer of the format emits for given tables, and the      *)
(* truncated and altered files the loader is run on.                       *)
(***************************************************************************)
RECURSIVE Concat(_)
Concat(seqs) == IF seqs = <<>> THEN <<>> ELSE Head(seqs) \o Concat(Tail(seqs))

LE16(n) == << n % 256, (n \div 256) % 256 >>

\* a datum as read_datum takes it: the tag byte, then the payload
EncDatum(d) == <<d.tag>> \o d.data
EncInstruction(i) ==
    <<i.opcode>> \o Concat([k \in 1..Len(i.operand) |-> EncDatum(i.operand[k])])
EncBytecode(code) == Concat([k \in 1..Len(code) |-> EncInstruction(code[k])])
EncSymbols(symbols) ==
    LE32(Len(symbols))
      \o Concat([k \in 1..Len(symbols) |->
                   LE32(symbols[k].id) \o LE16(symbols[k].name_len)
                     \o symbols[k].name])
EncConstant(c) ==
    IF kind_of(c.tag) \in {TAG_BOOL, TAG_NIL} THEN <<c.tag>>
    ELSE <<c.tag>> \o LE16(c.size) \o c.data
EncConstants(constants) ==
    LE32(Len(constants))
      \o Concat([k \in 1..Len(constants) |-> EncConstant(constants[k])])
EncProcedure(p) ==
    LE32(p.entry_pc) \o LE16(p.arity) \o LE16(p.local_count)
      \o LE16(p.free_count)
      \o Concat([k \in 1..Len(p.free_vars) |-> LE32(p.free_vars[k])])
EncProcedures(procedures) ==
    LE32(Len(procedures))
      \o Concat([k \in 1..Len(procedures) |-> EncProcedure(procedures[k])])

\* magic, version, word_size, flags, 16 reserved bytes, section_count
EncHeader(magic, section_count) ==
    magic \o LE16(1) \o <<8, 0>> \o [k \in 1..16 |-> 0] \o <<section_count>>
EncSectionEntry(e) == <<e.tag>> \o LE32(e.offset) \o LE32(e.size)
\* a file: the header, the section table, the section bodies in order
EncFile(magic, table, bodies) ==
    EncHeader(magic, Len(table))
      \o Concat([k \in 1..Len(table) |-> EncSectionEntry(table[k])])
      \o Concat(bodies)

MagicBytes == LE32(BVM_MAGIC)

RECURSIVE Total(_)
Total(lens) == IF lens = <<>> THEN 0 ELSE Head(lens) + Total(Tail(lens))
\* the table a writer emits for bodies laid out one after the other
Layout(tags, bodies) ==
    LET none == [tag |-> 0, offset |-> 0, size |-> 0]
        first == Len(EncHeader(MagicBytes, 0))
                   + Len(tags) * Len(EncSectionEntry(none))
    IN  [k \in 1..Len(tags) |->
           [tag |-> tags[k],
            offset |-> first + Total([j \in 1..(k - 1) |-> Len(bodies[j])]),
            size |-> Len(bodies[k])]]

\* read_datum's results for a STR, a FLOAT, a BOOL and a SYM operand
StrDatum(bytes) ==
    [tag |-> TAG_STR * 8, size |-> Len(bytes) + 2, data |-> LE16(Len(bytes)) \o bytes]
FloatDatum(bytes) == [tag |-> TAG_FLOAT * 8, size |-> 8, data |-> bytes]
BoolDatum(b) == [tag |-> TAG_BOOL * 8 + b, size |-> 0, data |-> <<>>]
SymDatum(n) == [tag |-> TAG_SYM * 8, size |-> 4, data |-> LE32(n)]

\* the tables of the model's files
FileSymbols == <<Symbol(0, prim_name(PRIM_ADD)), Symbol(1, <<120>>), Symbol(2, <<>>)>>
FileConstants ==
    <<IntConst(1), BoolConst(1), NilConst, RawConst(TAG_STR, <<2, 0, 97, 98>>)>>
FileProcedures ==
    <<Procedure(BVM_PRIMITIVE_ENTRY, 2, 0, <<>>), Procedure(4, 1, 1, <<1>>)>>
FileBytecode ==
    << I2(OP_MAKE_CLOSURE, 1, 0), I1(OP_LOAD_CONST, 0), I1(OP_CALL, 1),
       I0(OP_HALT), I1(OP_LOAD_VAR, 0), I0(OP_RETURN) >>
\* bytecode with operands of every kind read_datum takes, and opcodes
\* outside op_arity's table
MixedBytecode ==
    << [opcode |-> OP_LOAD_CONST, operand |-> <<StrDatum(<<97, 98>>)>>],
       [opcode |-> OP_MAKE_CLOSURE,
        operand |-> <<BoolDatum(1), FloatDatum([k \in 1..8 |-> k])>>],
       I0(OP_ADD),
       [opcode |-> OP_JMP, operand |-> <<SymDatum(1)>>],
       I0(OP_CMP_GT + 1),
       [opcode |-> OP_LABEL, operand |-> <<NilConst>>] >>

\* bytecode section bodies: well-formed ones, then an operand cut short, an
\* operand with an invalid tag, a STR operand longer than the section, and
\* an opcode whose operands are missing
BytecodeBodies ==
    { EncBytecode(FileBytecode), EncBytecode(MixedBytecode), <<>>,
      <<OP_LOAD_CONST, TAG_INT * 8, 1, 0>>,
      <<OP_LOAD_CONST, 0, 1, 0, 0, 0>>,
      <<OP_HALT, OP_LOAD_VAR, TAG_PAIR * 8>>,
      <<OP_LOAD_CONST, TAG_STR * 8, 9, 0, 97>>,
      <<OP_HALT, OP_MAKE_CLOSURE, TAG_INT * 8, 1, 0, 0, 0>>,
      <<OP_HALT, OP_CALL>> }

FileTags ==
    <<S_TAG_SYMBOL_TABLE, S_TAG_CONSTANT_POOL, S_TAG_DEBUG_INFO,
      S_TAG_PROCEDURE_TABLE, S_TAG_BYTECODE, S_TAG_VENDOR>>
FileBodies(bytecode) ==
    <<EncSymbols(FileSymbols), EncConstants(FileConstants), <<7, 7>>,
      EncProcedures(FileProcedures), bytecode, <<9, 9, 9>>>>
FileTable(bytecode) == Layout(FileTags, FileBodies(bytecode))
\* the file a writer emits for the tables above
GoodFile == EncFile(MagicBytes, FileTable(EncBytecode(FileBytecode)),
                    FileBodies(EncBytecode(FileBytecode)))

\* every file cut short
TruncatedFiles == { SubSeq(GoodFile, 1, n) : n \in 0..Len(GoodFile) }

\* the four magic bytes altered at the positions in where
AlteredMagic(where) ==
    [k \in 1..4 |-> IF k \in where THEN (MagicBytes[k] + 1) % 256
                    ELSE MagicBytes[k]]
WrongMagicFiles ==
    { AlteredMagic(where) \o SubSeq(GoodFile, 5, n) :
        where \in (SUBSET (1..4)) \ {{}}, n \in {4, 5, Len(GoodFile)} }

\* files with another bytecode body
BytecodeFiles ==
    { EncFile(MagicBytes, FileTable(b), FileBodies(b)) : b \in BytecodeBodies }

\* files whose section table places one section elsewhere or gives it
\* another size: at the end of the file, past it, at a word of 2^31 or more
SectionFiles ==
    LET table == FileTable(EncBytecode(FileBytecode))
        bodies == FileBodies(EncBytecode(FileBytecode))
        size == Len(GoodFile)
    IN  UNION {
          { EncFile(MagicBytes,
                    [table EXCEPT ![k] = [tag |-> tag, offset |-> offset,
                                          size |-> table[k].size + more]],
                    bodies) :
              tag \in {table[k].tag, S_TAG_VENDOR - 1},
              offset \in {table[k].offset, table[k].offset + 1, size - 1, size,
                          size + 3, UINT32_MAX},
              more \in {0, 1, size, UINT32_MAX - table[k].size} } :
          k \in 1..Len(table) }

\* files whose tables announce more entries than they hold
CountFiles ==
    { EncFile(MagicBytes, Layout(<<tag>>, <<body>>), <<body>>) :
        tag \in {S_TAG_SYMBOL_TABLE, S_TAG_CONSTANT_POOL, S_TAG_PROCEDURE_TABLE},
        body \in { LE32(UINT32_MAX) \o [k \in 1..n |-> 0] : n \in {0, 5, 6, 16} } }

\* files with no section, and with a bytecode section only
SmallFiles ==
    { EncFile(MagicBytes, <<>>, <<>>),
      EncFile(MagicBytes, Layout(<<S_TAG_BYTECODE>>, <<EncBytecode(FileBytecode)>>),
              <<EncBytecode(FileBytecode)>>) }

Files ==
    TruncatedFiles \cup WrongMagicFiles \cup BytecodeFiles \cup SectionFiles
      \cup CountFiles \cup SmallFiles

Init ==
    /\ program \in Programs
    \* init_bvm_program has returned: its reader and loop index are gone
    /\ bin = <<>> /\ reader = NewReader(0) /\ sections = <<>> /\ section_idx = 0
    /\ phase = "init"
    /\ exit_code = <<>>
    /\ pc = 0
    /\ last_pc = -1
    /\ calls = <<>>
    /\ stack = [capacity |-> 0, top |-> 0, data |-> <<>>]
    /\ frame_count = 0 /\ frame_capacity = 0 /\ frames = <<>>
    /\ env_count = 0 /\ env_capacity = 0 /\ envs = <<>>
    /\ current_env = 0 /\ global_env = 0
    /\ halted = 0 /\ error = 0

\* exit(code)
Exit(code) == phase' = "exited" /\ exit_code' = <<code>>
\* the process is killed by a signal (SIGSEGV, SIGFPE)
Killed == phase' = "killed" /\ exit_code' = exit_code

\* the global environment init_bvm builds: size is (uint16_t)symbol_count,
\* slots are calloc(symbol_count)
global_environment(prog, slots) ==
    [parent |-> UINT32_MAX, size |-> U16(prog.symbol_count), slots |-> slots]

\* frame 0, which init_bvm pushes: its return_pc marks it as the entry frame
\* an entry frame whose return_pc is an ordinary pc instead of UINT32_MAX
entry_frame_plain_pc == [return_pc |-> 0, env_idx |-> 0, stack_base |-> 0]
entry_frame == [return_pc |-> UINT32_MAX, env_idx |-> 0, stack_base |-> 0]

InitBvm ==
    /\ phase = "init"
    /\ \E fault \in Faults(binds_outside(program, 0)) :
         LET bound == bind_primitives(program,
                         [k \in 1..program.symbol_count |-> ZeroValue], 0, fault)
         IN  /\ stack' = [capacity |-> STACK_CAPACITY, top |-> 0, data |-> <<>>]
             /\ env_capacity' = ENV_CAPACITY
             /\ env_count' = 1
             /\ envs' = <<global_environment(program, bound.slots)>>
             /\ global_env' = 0
             /\ current_env' = 0
             /\ frame_capacity' = FRAME_CAPACITY
             /\ frame_count' = 1
             /\ frames' = <<entry_frame>>
             /\ halted' = 0 /\ error' = 0
             /\ pc' = 0
             /\ CASE bound.status = "ok" -> phase' = "exec" /\ exit_code' = exit_code
                  [] bound.status = "exit" -> Exit(EXIT_FAILURE)
                  [] bound.status = "killed" -> Killed
             /\ UNCHANGED <<program, last_pc, calls>>
             /\ UNCHANGED load_vars

(***************************************************************************)
(* execute_bvm: the dispatch loop.                                         *)
(***************************************************************************)
Running == phase = "exec" /\ error = 0 /\ halted = 0
PcInBounds == pc >= 0 /\ pc < program.instruction_count
Instr == At(program.bytecode, pc)
Dispatch(op) == Running /\ PcInBounds /\ Instr.opcode = op

\* operand_at(pc, k), its size, and *(uint32_t*)operand_at(pc, k)->data
operand_at(k) == At(Instr.operand, k)
Operand32(k) == Word32(operand_at(k).data)

\* code_start + w for a uint32_t w: an index past any table when w >= 2^31
PcOfWord(w) == IF w >= 0 THEN w ELSE program.instruction_count - w

\* the step took the instruction at pc; nothing but the named parts change
\* what the step does to the history of calls: a CALL that pushed a frame
\* is recorded, a RETURN that popped one drops the latest record
calls_after ==
    IF Instr.opcode = OP_CALL /\ frame_count' = frame_count + 1
    THEN Append(calls, [pc |-> pc, env |-> current_env, frames |-> frame_count])
    ELSE IF Instr.opcode = OP_RETURN /\ frame_count' = frame_count - 1
              /\ calls # <<>>
    THEN SubSeq(calls, 1, Len(calls) - 1)
    ELSE calls
Took ==
    /\ last_pc' = pc /\ program' = program /\ UNCHANGED load_vars
    /\ calls' = calls_after
Continue == phase' = phase /\ exit_code' = exit_code

\* a bounds check that ends the loop as a normal halt
PcOutOfBoundsHalts ==
    /\ Running /\ ~PcInBounds
    /\ halted' = 1
    /\ Continue
    /\ UNCHANGED load_vars
    /\ UNCHANGED <<program, pc, last_pc, calls, stack, frame_count,
                   frame_capacity, frames, env_count, env_capacity, envs,
                   current_env, global_env, error>>

PcOutOfBounds ==
    /\ Running /\ ~PcInBounds
    /\ error' = 1
    /\ Continue
    /\ UNCHANGED load_vars
    /\ UNCHANGED <<program, pc, last_pc, calls, stack, frame_count,
                   frame_capacity,
                   frames, env_count, env_capacity, envs, current_env,
                   global_env, halted>>

\* a HALT that raises the error flag as well
OpHaltWithError ==
    /\ Dispatch(OP_HALT)
    /\ halted' = 1 /\ error' = 1
    /\ Took /\ Continue
    /\ UNCHANGED <<pc, stack, frame_count, frame_capacity, frames, env_count,
                   env_capacity, envs, current_env, global_env>>

OpHalt ==
    /\ Dispatch(OP_HALT)
    /\ halted' = 1
    /\ Took /\ Continue
    /\ UNCHANGED <<pc, stack, frame_count, frame_capacity, frames, env_count,
                   env_capacity, envs, current_env, global_env, error>>

OpPop ==
    /\ Dispatch(OP_POP)
    /\ IF pop_ok(stack)
       THEN stack' = pop_stack(stack) /\ pc' = pc + 1 /\ Continue
       ELSE Exit(EXIT_FAILURE) /\ UNCHANGED <<stack, pc>>
    /\ Took
    /\ UNCHANGED <<frame_count, frame_capacity, frames, env_count,
                   env_capacity, envs, current_env, global_env, halted, error>>

\* the constants the read of constants[idx] can give
constant_at(idx) ==
    IF idx >= 0 /\ idx < program.constant_count
    THEN {At(program.constants, idx)} ELSE GarbageConsts

OpLoadConst ==
    /\ Dispatch(OP_LOAD_CONST)
    /\ IF operand_at(0).size < 4
       THEN Exit(EXIT_FAILURE) /\ UNCHANGED <<stack, pc>>
       ELSE LET idx == Operand32(0)
            IN  \E c \in constant_at(idx) :
                \E fault \in Faults(~(idx >= 0 /\ idx < program.constant_count)
                                       \/ constant_reads_outside(c)) :
                   IF fault THEN Killed /\ UNCHANGED <<stack, pc>>
                   ELSE IF ~constant_known(c)
                   THEN Exit(EXIT_FAILURE) /\ UNCHANGED <<stack, pc>>
                   ELSE \E v \in make_value_from_constant(c) :
                          IF push_ok(stack)
                          THEN /\ stack' = push_stack(stack, v)
                               /\ pc' = pc + 1 /\ Continue
                          ELSE Exit(EXIT_FAILURE) /\ UNCHANGED <<stack, pc>>
    /\ Took
    /\ UNCHANGED <<frame_count, frame_capacity, frames, env_count,
                   env_capacity, envs, current_env, global_env, halted, error>>

OpLoadVar ==
    /\ Dispatch(OP_LOAD_VAR)
    /\ LET sym_id == Operand32(0)
           env == At(envs, current_env)
       IN  IF UGe(sym_id, env.size)
           THEN Exit(EXIT_FAILURE) /\ UNCHANGED <<stack, pc>>
           ELSE IF push_ok(stack)
           THEN /\ stack' = push_stack(stack, At(env.slots, sym_id))
                /\ pc' = pc + 1 /\ Continue
           ELSE Exit(EXIT_FAILURE) /\ UNCHANGED <<stack, pc>>
    /\ Took
    /\ UNCHANGED <<frame_count, frame_capacity, frames, env_count,
                   env_capacity, envs, current_env, global_env, halted, error>>

\* a STORE_VAR that pops its value before it checks the symbol id
OpStoreVarPopsFirst ==
    /\ Dispatch(OP_STORE_VAR)
    /\ LET sym_id == Operand32(0)
           env == At(envs, current_env)
       IN  IF operand_at(0).size < 4 \/ ~pop_ok(stack)
           THEN Exit(EXIT_FAILURE) /\ UNCHANGED <<stack, pc, envs>>
           ELSE IF UGe(sym_id, env.size)
           THEN /\ Exit(EXIT_FAILURE) /\ stack' = pop_stack(stack)
                /\ UNCHANGED <<pc, envs>>
           ELSE /\ stack' = pop_stack(stack)
                /\ envs' = [envs EXCEPT ![current_env + 1].slots[sym_id + 1] =
                                           pop_value(stack)]
                /\ pc' = pc + 1 /\ Continue
    /\ Took
    /\ UNCHANGED <<frame_count, frame_capacity, frames, env_count,
                   env_capacity, current_env, global_env, halted, error>>

OpStoreVar ==
    /\ Dispatch(OP_STORE_VAR)
    /\ LET sym_id == Operand32(0)
           env == At(envs, current_env)
       IN  IF operand_at(0).size < 4 \/ UGe(sym_id, env.size)
           THEN Exit(EXIT_FAILURE) /\ UNCHANGED <<stack, pc, envs>>
           ELSE IF ~pop_ok(stack)
           THEN Exit(EXIT_FAILURE) /\ UNCHANGED <<stack, pc, envs>>
           ELSE /\ stack' = pop_stack(stack)
                /\ envs' = [envs EXCEPT ![current_env + 1].slots[sym_id + 1] =
                                           pop_value(stack)]
                /\ pc' = pc + 1 /\ Continue
    /\ Took
    /\ UNCHANGED <<frame_count, frame_capacity, frames, env_count,
                   env_capacity, current_env, global_env, halted, error>>

\* a JMP that takes its operand as the target instead of an offset
OpJmpAbsolute ==
    /\ Dispatch(OP_JMP)
    /\ pc' = Operand32(0)
    /\ Took /\ Continue
    /\ UNCHANGED vm_vars

OpJmp ==
    /\ Dispatch(OP_JMP)
    /\ pc' = pc + Operand32(0)
    /\ Took /\ Continue
    /\ UNCHANGED vm_vars

OpJmpTrue ==
    /\ Dispatch(OP_JMP_TRUE)
    /\ IF pop_ok(stack)
       THEN /\ stack' = pop_stack(stack)
            /\ pc' = IF as_b(pop_value(stack)) # 0
                     THEN pc + Operand32(0) ELSE pc + 1
            /\ Continue
       ELSE Exit(EXIT_FAILURE) /\ UNCHANGED <<stack, pc>>
    /\ Took
    /\ UNCHANGED <<frame_count, frame_capacity, frames, env_count,
                   env_capacity, envs, current_env, global_env, halted, error>>

OpJmpFalse ==
    /\ Dispatch(OP_JMP_FALSE)
    /\ IF pop_ok(stack)
       THEN /\ stack' = pop_stack(stack)
            /\ pc' = IF as_b(pop_value(stack)) # 0
                     THEN pc + 1 ELSE pc + Operand32(0)
            /\ Continue
       ELSE Exit(EXIT_FAILURE) /\ UNCHANGED <<stack, pc>>
    /\ Took
    /\ UNCHANGED <<frame_count, frame_capacity, frames, env_count,
                   env_capacity, envs, current_env, global_env, halted, error>>

\* stack.top = frame.stack_base: RETURN's truncation to the caller's base
\* a RETURN that forgets to truncate the stack to the frame's stack_base
truncate_stack_skipped(s, frame) == s
truncate_stack(s, frame) == [s EXCEPT !.top = frame.stack_base]

OpReturn ==
    /\ Dispatch(OP_RETURN)
    /\ IF ~pop_ok(stack)
       THEN /\ Exit(EXIT_FAILURE)
            /\ UNCHANGED <<stack, pc, frame_count, frames, current_env, halted>>
       ELSE LET ret == pop_value(stack)
                frame == At(frames, frame_count - 1)
            IN  /\ frame_count' = frame_count - 1
                /\ frames' = SubSeq(frames, 1, frame_count - 1)
                /\ IF frame.return_pc = UINT32_MAX
                   THEN /\ halted' = 1
                        /\ stack' = pop_stack(stack)
                        /\ Continue
                        /\ UNCHANGED <<pc, current_env>>
                   ELSE /\ current_env' = frame.env_idx
                        /\ halted' = halted
                        /\ IF push_ok(truncate_stack(pop_stack(stack), frame))
                           THEN /\ stack' = push_stack(
                                      truncate_stack(pop_stack(stack), frame), ret)
                                /\ pc' = PcOfWord(frame.return_pc)
                                /\ Continue
                           ELSE /\ stack' = truncate_stack(pop_stack(stack), frame)
                                /\ pc' = pc
                                /\ Exit(EXIT_FAILURE)
    /\ Took
    /\ UNCHANGED <<frame_capacity, env_count, env_capacity, envs, global_env,
                   error>>

OpLabel ==
    /\ Dispatch(OP_LABEL)
    /\ error' = 1
    /\ Took /\ Continue
    /\ UNCHANGED <<pc, stack, frame_count, frame_capacity, frames, env_count,
                   env_capacity, envs, current_env, global_env, halted>>

\* whether procedures[idx] is inside the procedure table, and the records
\* the read of it can give
procedure_in_table(idx) == idx >= 0 /\ idx < program.procedure_count
procedure_at(idx) ==
    IF procedure_in_table(idx) THEN {At(program.procedures, idx)}
    ELSE GarbageProcs

\* whether slots[idx] is inside the slots of environment e, for words e, idx
slot_in_env(e, idx) ==
    /\ e >= 0 /\ e < env_count
    /\ idx >= 0 /\ idx < Len(At(envs, e).slots)

\* a MAKE_CLOSURE that allocates the environment and copies nothing into it
captured_slots_not_copied(proc, g) == [i \in 1..proc.free_count |-> ZeroValue]

\* the slots MAKE_CLOSURE copies for proc: slot i from the current
\* environment's slot free_vars[i], g where that slot is outside it
captured_slots(proc, g) ==
    [i \in 1..proc.free_count |->
        IF slot_in_env(current_env, proc.free_vars[i])
        THEN At(At(envs, current_env).slots, proc.free_vars[i]) ELSE g]

\* whether MAKE_CLOSURE reads a slot outside the current environment
captures_outside(proc) ==
    \E i \in 1..proc.free_count : ~slot_in_env(current_env, proc.free_vars[i])

OpMakeClosure ==
    /\ Dispatch(OP_MAKE_CLOSURE)
    /\ LET proc_idx == Operand32(0)
       IN  \E proc \in procedure_at(proc_idx) :
           \E g \in (IF captures_outside(proc) THEN GarbageValues
                     ELSE {ZeroValue}) :
           \E fault \in Faults(~procedure_in_table(proc_idx)
                                 \/ captures_outside(proc)) :
             IF fault
             THEN /\ Killed
                  /\ UNCHANGED <<stack, pc, env_count, env_capacity, envs>>
             ELSE /\ env_count < env_bound
                  /\ env_capacity' = grow_capacity(env_count, env_capacity)
                  /\ env_count' = env_count + 1
                  /\ envs' = Append(envs,
                        [new_env(current_env, proc.free_count)
                           EXCEPT !.slots = captured_slots(proc, g)])
                  /\ IF push_ok(stack)
                     THEN /\ stack' = push_stack(stack,
                                         ProcValue(proc_idx, env_count))
                          /\ pc' = pc + 1 /\ Continue
                     ELSE Exit(EXIT_FAILURE) /\ UNCHANGED <<stack, pc>>
    /\ Took
    /\ UNCHANGED <<frame_count, frame_capacity, frames, current_env,
                   global_env, halted, error>>

OpLoadClosure ==
    /\ Dispatch(OP_LOAD_CLOSURE)
    /\ LET idx == Operand32(0)
           closure_env == At(envs, current_env).parent
       IN  IF closure_env = UINT32_MAX
           THEN error' = 1 /\ Continue /\ UNCHANGED <<stack, pc>>
           ELSE /\ error' = error
                /\ \E fault \in Faults(~slot_in_env(closure_env, idx)) :
                   \E v \in (IF slot_in_env(closure_env, idx)
                             THEN {At(At(envs, closure_env).slots, idx)}
                             ELSE GarbageValues) :
                      IF fault THEN Killed /\ UNCHANGED <<stack, pc>>
                      ELSE IF push_ok(stack)
                      THEN /\ stack' = push_stack(stack, v)
                           /\ pc' = pc + 1 /\ Continue
                      ELSE Exit(EXIT_FAILURE) /\ UNCHANGED <<stack, pc>>
    /\ Took
    /\ UNCHANGED <<frame_count, frame_capacity, frames, env_count,
                   env_capacity, envs, current_env, global_env, halted>>

OpStoreClosure ==
    /\ Dispatch(OP_STORE_CLOSURE)
    /\ LET idx == Operand32(0)
           closure_env == At(envs, current_env).parent
       IN  \E fault \in Faults(~slot_in_env(closure_env, idx)) :
             IF fault THEN Killed /\ UNCHANGED <<stack, pc, envs>>
             ELSE IF ~pop_ok(stack)
             THEN Exit(EXIT_FAILURE) /\ UNCHANGED <<stack, pc, envs>>
             ELSE /\ stack' = pop_stack(stack)
                  /\ envs' = IF slot_in_env(closure_env, idx)
                             THEN [envs EXCEPT
                                     ![closure_env + 1].slots[idx + 1] =
                                        pop_value(stack)]
                             ELSE envs
                  /\ pc' = pc + 1 /\ Continue
    /\ Took
    /\ UNCHANGED <<frame_count, frame_capacity, frames, env_count,
                   env_capacity, current_env, global_env, halted, error>>

\* CALL's arity check: argc != proc->arity is "arity mismatch"
\* an arity test that lets surplus arguments through
arity_matches_at_least(argc, proc) == argc >= proc.arity
arity_matches(argc, proc) == argc = proc.arity

\* a frame that returns to the CALL itself
call_frame_at_call == [return_pc |-> pc, env_idx |-> current_env]
\* the frame CALL pushes
call_frame == [return_pc |-> pc + 1, env_idx |-> current_env]

\* the slots of the environment CALL allocates for proc: size is
\* (uint16_t)(arity + local_count), the first arity slots take the arguments
\* (a store past size lands outside the environment)
call_slots(proc, args) ==
    [k \in 1..U16(proc.arity + proc.local_count) |->
        IF k <= proc.arity THEN args[k] ELSE ZeroValue]

\* args[k].as.i as execute_primitive reads it: garbage when CALL left
\* args[k] unwritten
arg_ints(args, argc, k) ==
    IF k < argc THEN {as_i(At(args, k))} ELSE GarbageInts

\* CALL argc once its argc + 1 pops went through: callee was below args
CallPopped(argc, callee, args, popped) ==
    IF callee.tag # TAG_PROC
    THEN /\ error' = 1 /\ stack' = popped /\ Continue
         /\ UNCHANGED <<pc, frame_count, frame_capacity, frames, env_count,
                        env_capacity, envs, current_env>>
    ELSE
    \E proc \in procedure_at(callee.proc_idx) :
    \E fault \in Faults(~procedure_in_table(callee.proc_idx)) :
      IF fault
      THEN /\ Killed /\ stack' = popped
           /\ UNCHANGED <<pc, frame_count, frame_capacity, frames, env_count,
                          env_capacity, envs, current_env, error>>
      ELSE IF proc.entry_pc = BVM_PRIMITIVE_ENTRY
      THEN /\ UNCHANGED <<frame_count, frame_capacity, frames, env_count,
                          env_capacity, envs, current_env, error>>
           /\ IF ~primitive_known(callee.proc_idx)
              THEN Exit(EXIT_FAILURE) /\ stack' = popped /\ pc' = pc
              ELSE LET prim == primitive_of_proc(callee.proc_idx) IN
                   \E a \in arg_ints(args, argc, 0) :
                   \E b \in (IF primitive_reads(prim) = 2
                             THEN arg_ints(args, argc, 1) ELSE {0}) :
                      IF prim = PRIM_DIV /\ b = 0
                      THEN \* INT / 0 is undefined: a trap, or some quotient
                           \E trap \in BOOLEAN, q \in GarbageInts :
                             IF trap
                             THEN Killed /\ stack' = popped /\ pc' = pc
                             ELSE /\ stack' = push_stack(popped, IntValue(q))
                                  /\ pc' = pc + 1 /\ Continue
                      ELSE IF push_ok(popped)
                      THEN /\ stack' = push_stack(popped,
                                          execute_primitive(prim, a, b))
                           /\ pc' = pc + 1 /\ Continue
                      ELSE Exit(EXIT_FAILURE) /\ stack' = popped /\ pc' = pc
      ELSE IF ~arity_matches(argc, proc)
      THEN /\ error' = 1 /\ stack' = popped /\ Continue
           /\ UNCHANGED <<pc, frame_count, frame_capacity, frames, env_count,
                          env_capacity, envs, current_env>>
      ELSE \E lost \in Faults(proc.arity > U16(proc.arity + proc.local_count)) :
           IF lost
           THEN /\ Killed /\ stack' = popped
                /\ UNCHANGED <<pc, frame_count, frame_capacity, frames,
                               env_count, env_capacity, envs, current_env,
                               error>>
           ELSE /\ env_count < env_bound
                /\ env_capacity' = grow_capacity(env_count, env_capacity)
                /\ env_count' = env_count + 1
                /\ envs' = Append(envs,
                      [new_env(callee.env_idx,
                               U16(proc.arity + proc.local_count))
                         EXCEPT !.slots = call_slots(proc, args)])
                /\ frame_capacity' = grow_capacity(frame_count, frame_capacity)
                /\ frame_count' = frame_count + 1
                /\ frames' = Append(frames,
                      [return_pc |-> call_frame.return_pc,
                       env_idx |-> call_frame.env_idx,
                       stack_base |-> U16(popped.top)])
                /\ current_env' = env_count
                /\ pc' = PcOfWord(proc.entry_pc)
                /\ stack' = popped
                /\ error' = error
                /\ Continue

OpCall ==
    /\ Dispatch(OP_CALL)
    /\ LET argc == Operand32(0)
       IN  IF argc < 0
           THEN \* a variable-length args[] of 2^31 or more values
                /\ Killed
                /\ UNCHANGED <<pc, stack, frame_count, frame_capacity, frames,
                               env_count, env_capacity, envs, current_env,
                               error>>
           ELSE IF stack.top < argc + 1
           THEN \* one of the argc + 1 pops finds the stack empty
                /\ Exit(EXIT_FAILURE)
                /\ stack' = [stack EXCEPT !.top = 0]
                /\ UNCHANGED <<pc, frame_count, frame_capacity, frames,
                               env_count, env_capacity, envs, current_env,
                               error>>
           ELSE CallPopped(argc, stack.data[stack.top - argc],
                           top_values(stack, argc),
                           [stack EXCEPT !.top = stack.top - argc - 1])
    /\ Took
    /\ UNCHANGED <<global_env, halted>>

\* the opcodes execute_bvm's switch has a case for
HandledOpcodes ==
    {OP_HALT, OP_POP, OP_LOAD_CONST, OP_LOAD_VAR, OP_STORE_VAR, OP_JMP,
     OP_JMP_TRUE, OP_JMP_FALSE, OP_RETURN, OP_LABEL, OP_MAKE_CLOSURE,
     OP_LOAD_CLOSURE, OP_STORE_CLOSURE, OP_CALL}

\* the switch's default case: "unknown opcode"
OpDefault ==
    /\ Running /\ PcInBounds /\ Instr.opcode \notin HandledOpcodes
    /\ error' = 1
    /\ Took /\ Continue
    /\ UNCHANGED <<pc, stack, frame_count, frame_capacity, frames, env_count,
                   env_capacity, envs, current_env, global_env, halted>>

\* main after execute_bvm returns: free_bvm, then the end of main is
\* reached without a return statement
main_status == EXIT_OK

MainReturn ==
    /\ phase = "exec" /\ (error # 0 \/ halted # 0)
    /\ Exit(main_status)
    /\ UNCHANGED load_vars
    /\ UNCHANGED <<program, pc, last_pc, calls>>
    /\ UNCHANGED vm_vars

Next ==
    \/ InitBvm
    \/ PcOutOfBounds
    \/ OpHalt
    \/ OpPop
    \/ OpLoadConst
    \/ OpLoadVar
    \/ OpStoreVar
    \/ OpJmp
    \/ OpJmpTrue
    \/ OpJmpFalse
    \/ OpReturn
    \/ OpLabel
    \/ OpMakeClosure
    \/ OpLoadClosure
    \/ OpStoreClosure
    \/ OpCall
    \/ OpDefault
    \/ MainReturn

Spec == Init /\ [][Next]_vars

(***************************************************************************)
(* init_bvm_program, one step for the magic, one for the header and the    *)
(* section table, one for each section.                                    *)
(***************************************************************************)
\* the fields of main's BVMProgram before init_bvm_program fills them: the
\* struct is not initialised, a count holds what the stack held
GarbageCounts == {0, 2}
UnloadedPrograms ==
    { [symbol_count |-> g, symbols |-> <<>>,
       constant_count |-> g, constants |-> <<>>,
       procedure_count |-> g, procedures |-> <<>>,
       instruction_count |-> g, bytecode |-> <<>>] : g \in GarbageCounts }

\* what execute_bvm works on is not touched by the loader
LoaderLeaves ==
    UNCHANGED <<bin, pc, last_pc, calls, stack, frame_count, frame_capacity, frames,
                env_count, env_capacity, envs, current_env, global_env,
                halted, error>>

\* how a step that read up to r ends when a read or a datum stopped it
Stop(r) ==
    /\ reader' = r
    /\ IF r.refused THEN Exit(EXIT_READ_OUT_OF_BOUNDS) ELSE Exit(EXIT_FAILURE)

\* the magic word is read and compared
LoadMagic ==
    /\ phase = "magic"
    /\ LET magic == read_uint32(bin, reader)
       IN  IF stopped(magic) THEN Stop(magic)
           ELSE /\ reader' = magic
                /\ IF ~magic_ok(magic.val) THEN Exit(EXIT_INVALID_MAGIC)
                   ELSE phase' = "header" /\ exit_code' = exit_code
    /\ UNCHANGED <<sections, section_idx, program>>
    /\ LoaderLeaves

\* version, word_size, flags, 16 skipped bytes, section_count, the table
LoadHeader ==
    /\ phase = "header"
    /\ LET version == read_uint16(bin, reader)
           word_size == read_uint8(bin, version)
           flags == read_uint8(bin, word_size)
           section_count == read_uint8(bin, skip_bytes(flags, 16))
           table == read_section_table(bin, section_count,
                                       section_count.val, <<>>)
       IN  IF stopped(table)
           THEN Stop(table) /\ UNCHANGED <<sections, section_idx>>
           ELSE /\ reader' = table
                /\ sections' = table.val
                /\ section_idx' = 0
                /\ phase' = "sections" /\ exit_code' = exit_code
    /\ UNCHANGED program
    /\ LoaderLeaves

\* BVMSection section = bvm->sections[i]
section == At(sections, section_idx)
InSection(tags) ==
    /\ phase = "sections"
    /\ section_idx < Len(sections)
    /\ section.tag \in tags
\* the loop goes on to the next section
NextSection ==
    /\ section_idx' = section_idx + 1
    /\ phase' = phase /\ exit_code' = exit_code
    /\ UNCHANGED sections

\* malloc(count * sizeof) of 2^31 entries or more can return NULL, which
\* the table cases do not test: storing the first entry is then a write
\* through NULL
alloc_fails(count) == count < 0
\* the u32 count a table section starts with
table_count == read_uint32(bin, seek(reader, section.offset))
\* a table case: entries is the reader after the loop over all entries,
\* first the reader after one entry; the Program field is written when all
\* entries are read
LoadTable(entries, first, field, count_field) ==
    \/ /\ stopped(entries)
       /\ Stop(entries)
       /\ UNCHANGED <<sections, section_idx, program>>
    \/ /\ ~stopped(entries)
       /\ reader' = entries
       /\ program' = [program EXCEPT ![count_field] = table_count.val,
                                     ![field] = entries.val]
       /\ NextSection
    \/ /\ ~stopped(table_count) /\ alloc_fails(table_count.val)
       /\ ~stopped(first)
       /\ reader' = first
       /\ Killed
       /\ UNCHANGED <<sections, section_idx, program>>

LoadSymbolTable ==
    /\ InSection({S_TAG_SYMBOL_TABLE})
    /\ LoadTable(read_symbols(bin, table_count, table_count.val, <<>>),
                 read_symbols(bin, table_count, 1, <<>>), "symbols", "symbol_count")
    /\ LoaderLeaves

LoadConstantPool ==
    /\ InSection({S_TAG_CONSTANT_POOL})
    /\ LoadTable(read_constants(bin, table_count, table_count.val, <<>>),
                 read_constants(bin, table_count, 1, <<>>), "constants", "constant_count")
    /\ LoaderLeaves

LoadProcedureTable ==
    /\ InSection({S_TAG_PROCEDURE_TABLE})
    /\ LoadTable(read_procedures(bin, table_count, table_count.val, <<>>),
                 read_procedures(bin, table_count, 1, <<>>), "procedures", "procedure_count")
    /\ LoaderLeaves

\* the bytes of the section are copied, counted and decoded
LoadBytecode ==
    /\ InSection({S_TAG_BYTECODE})
    /\ LET copy == read_bytes(bin, seek(reader, section.offset), section.size)
           bytecode == copy.val
           count_r == count_instructions(bytecode, NewReader(section.size), 0)
           bcr == decode_instructions(bytecode, NewReader(section.size),
                                      count_r.val, <<>>)
           after(r) == [copy EXCEPT !.refused = r.refused,
                                    !.invalid = r.invalid,
                                    !.beyond = @ \/ r.beyond]
       IN  IF stopped(copy)
           THEN Stop(copy) /\ UNCHANGED <<sections, section_idx, program>>
           ELSE IF stopped(count_r)
           THEN Stop(after(count_r))
                  /\ UNCHANGED <<sections, section_idx, program>>
           ELSE IF stopped(bcr)
           THEN Stop(after(bcr)) /\ UNCHANGED <<sections, section_idx, program>>
           ELSE /\ reader' = after([bcr EXCEPT !.beyond = @ \/ count_r.beyond])
                /\ program' = [program EXCEPT !.instruction_count = count_r.val,
                                              !.bytecode = bcr.val]
                /\ NextSection
    /\ LoaderLeaves

\* S_TAG_SOURCE_MAP .. S_TAG_VENDOR and default: nothing is read
LoadOtherSection ==
    /\ InSection(0..S_TAG_VENDOR \ {S_TAG_SYMBOL_TABLE, S_TAG_CONSTANT_POOL,
                                    S_TAG_PROCEDURE_TABLE, S_TAG_BYTECODE})
    /\ reader' = seek(reader, section.offset)
    /\ NextSection
    /\ UNCHANGED program
    /\ LoaderLeaves

\* init_bvm_program returns to main
LoadReturn ==
    /\ phase = "sections"
    /\ section_idx >= Len(sections)
    /\ phase' = "init"
    /\ UNCHANGED <<reader, sections, section_idx, program, exit_code>>
    /\ LoaderLeaves

\* main up to init_bvm: the file is in memory (read_file)
LoadInit ==
    /\ bin \in Files
    /\ reader = NewReader(Len(bin))
    /\ sections = <<>> /\ section_idx = 0
    /\ program \in UnloadedPrograms
    /\ phase = "magic"
    /\ exit_code = <<>>
    /\ pc = 0
    /\ last_pc = -1
    /\ calls = <<>>
    /\ stack = [capacity |-> 0, top |-> 0, data |-> <<>>]
    /\ frame_count = 0 /\ frame_capacity = 0 /\ frames = <<>>
    /\ env_count = 0 /\ env_capacity = 0 /\ envs = <<>>
    /\ current_env = 0 /\ global_env = 0
    /\ halted = 0 /\ error = 0

LoadNext ==
    \/ LoadMagic
    \/ LoadHeader
    \/ LoadSymbolTable
    \/ LoadConstantPool
    \/ LoadProcedureTable
    \/ LoadBytecode
    \/ LoadOtherSection
    \/ LoadReturn

LoadSpec == LoadInit /\ [][LoadNext]_vars

(***************************************************************************)
(* Properties.                                                             *)
(***************************************************************************)
\* the opcode of the instruction dispatched last, -1 when there is none
LastOp ==
    IF last_pc >= 0 /\ last_pc < program.instruction_count
    THEN At(program.bytecode, last_pc).opcode ELSE -1

\* the frame a RETURN taken now would pop
TopFrame == At(frames, frame_count - 1)

\* CALL is about to be dispatched, its argc + 1 pops will go through, and
\* the callee is a PROC whose procedure is in the table
CallOfProc ==
    /\ Dispatch(OP_CALL)
    /\ Operand32(0) >= 0 /\ stack.top >= Operand32(0) + 1
    /\ stack.data[stack.top - Operand32(0)].tag = TAG_PROC
    /\ procedure_in_table(stack.data[stack.top - Operand32(0)].proc_idx)
CallArgc == Operand32(0)
CallCallee == stack.data[stack.top - CallArgc]
CallProc == At(program.procedures, CallCallee.proc_idx)
CallArgs == top_values(stack, CallArgc)

\* C1: the exit status reflects how execution ended: 0 when the loop ended
\* with halted set, 1 (never 0) when it ended with the error flag set.
C1_ExitStatusReflectsEnd ==
    /\ (phase = "exited" /\ halted = 1) => exit_code = <<EXIT_OK>>
    /\ (phase = "exited" /\ error = 1) => exit_code = <<EXIT_FAILURE>>

\* C2: a RETURN that pops a frame other than the entry frame leaves
\* stack.top = that frame's stack_base + 1 with the value it popped on top.
C2_ReturnLeavesValueAtBase ==
    [][ (Dispatch(OP_RETURN) /\ pop_ok(stack)
           /\ TopFrame.return_pc # UINT32_MAX)
        => /\ stack'.top = TopFrame.stack_base + 1
           /\ stack'.data[stack'.top] = pop_value(stack)
           /\ frame_count' = frame_count - 1 ]_vars

\* C2 witness: a non-final RETURN has just run and discarded values the
\* callee left above the one it returned.
C2_Witness ==
    /\ LastOp = OP_RETURN /\ phase = "exec" /\ halted = 0 /\ pc # last_pc
    /\ Len(stack.data) > stack.top
    /\ frame_count = 1 /\ stack.top = 1

\* C3: every frame on the frame stack has stack_base <= stack.top.
C3_FrameBaseWithinStack ==
    phase = "exec" =>
        \A k \in 0..(frame_count - 1) : At(frames, k).stack_base <= stack.top

\* a PROC value names a procedure of the table and either no environment
\* or an allocated one, with count environments allocated
ValidProc(v, count) ==
    /\ v.proc_idx >= 0 /\ v.proc_idx < program.procedure_count
    /\ (v.env_idx = UINT32_MAX \/ (v.env_idx >= 0 /\ v.env_idx < count))

\* C4: the PROC values primitive binding installs and the PROC value
\* MAKE_CLOSURE p pushes, for any operand p, have proc_idx < procedure_count
\* and env_idx = MAX or env_idx < env_count.
C4_ProcValuesValid ==
    [][ /\ (phase = "init" /\ phase' = "exec") =>
             \A k \in 1..Len(envs'[1].slots) :
                envs'[1].slots[k].tag = TAG_PROC =>
                   ValidProc(envs'[1].slots[k], env_count')
        /\ (Dispatch(OP_MAKE_CLOSURE) /\ stack'.top = stack.top + 1) =>
             /\ stack'.data[stack'.top].tag = TAG_PROC
             /\ ValidProc(stack'.data[stack'.top], env_count') ]_vars

\* the opcodes whose case calls push_stack without popping first
PushingOpcodes == {OP_LOAD_CONST, OP_LOAD_VAR, OP_MAKE_CLOSURE, OP_LOAD_CLOSURE}

\* C5: stack.top <= stack.capacity = 256 throughout the run; an instruction
\* that pushes, dispatched with top = capacity, stores nothing and ends the
\* process (exit 1 when it gets to the push).
C5_StackWithinCapacity ==
    /\ [](phase # "init" =>
            /\ stack.capacity = STACK_CAPACITY
            /\ stack.top <= stack.capacity
            /\ Len(stack.data) <= stack.capacity)
    /\ [][ (Running /\ PcInBounds /\ Instr.opcode \in PushingOpcodes
              /\ stack.top = stack.capacity)
           => /\ stack' = stack /\ pc' = pc
              /\ \/ phase' = "exited" /\ exit_code' = <<EXIT_FAILURE>>
                 \/ phase' = "killed"
                 \/ error' = 1 ]_vars

\* C5 witness: a push was attempted on a full stack and the process exited 1.
C5_Witness ==
    /\ phase = "exited" /\ exit_code = <<EXIT_FAILURE>>
    /\ stack.top = STACK_CAPACITY /\ Len(stack.data) = STACK_CAPACITY
    /\ last_pc = pc /\ LastOp \in PushingOpcodes

\* C6: current_env < env_count, and frame_count >= 1 unless halted;
\* frame_count reaches 0 only by a RETURN that pops the entry frame, and
\* that step sets halted and not error.
C6_EnvAndFrameCounts ==
    /\ [](phase # "init" =>
            /\ current_env >= 0 /\ current_env < env_count
            /\ (frame_count >= 1 \/ halted = 1))
    /\ [][ (frame_count # 0 /\ frame_count' = 0)
           => /\ Dispatch(OP_RETURN)
              /\ TopFrame.return_pc = UINT32_MAX
              /\ halted' = 1 /\ error' = 0 ]_vars

\* C6 witness: a RETURN through the entry frame, taken inside a callee's
\* environment, has emptied the frame stack and halted the VM.
C6_Witness ==
    /\ frame_count = 0 /\ halted = 1 /\ error = 0 /\ LastOp = OP_RETURN
    /\ env_count > 1

\* C7: each environment's parent is MAX or the index of an environment
\* allocated strictly earlier.
C7_ParentsAllocatedEarlier ==
    \A e \in 0..(env_count - 1) :
        \/ At(envs, e).parent = UINT32_MAX
        \/ (At(envs, e).parent >= 0 /\ At(envs, e).parent < e)

\* CALL n on a PROC for a non-primitive procedure with n # arity
ArityMismatchCall ==
    /\ CallOfProc
    /\ CallProc.entry_pc # BVM_PRIMITIVE_ENTRY
    /\ CallArgc # CallProc.arity

\* C8: CALL n on a PROC for a non-primitive procedure with n # arity sets
\* error and pushes no frame, allocates no environment, leaves current_env
\* and pc alone; once error is set no instruction executes.
C8_ArityMismatchIsError ==
    /\ [][ ArityMismatchCall
           => /\ error' = 1 /\ phase' = "exec"
              /\ frame_count' = frame_count /\ frames' = frames
              /\ env_count' = env_count /\ envs' = envs
              /\ current_env' = current_env /\ pc' = pc ]_vars
    /\ [][ error = 1
           => /\ pc' = pc /\ last_pc' = last_pc
              /\ UNCHANGED vm_vars ]_vars

\* C8 witness: the CALL at pc was an arity mismatch on a bytecode procedure
\* (the callee it popped is still above top) and error is set.
C8_Witness ==
    /\ error = 1 /\ phase = "exec" /\ last_pc = pc /\ LastOp = OP_CALL
    /\ Len(stack.data) > stack.top
    /\ stack.data[stack.top + 1].tag = TAG_PROC
    /\ stack.data[stack.top + 1].proc_idx = USER
    /\ At(program.procedures, USER).arity # Operand32(0)
    /\ frame_count = 1 /\ env_count = 2

\* CALL n on a primitive with the wrong number of arguments or with an
\* argument that is not an INT
PrimitiveMisuse ==
    /\ CallOfProc
    /\ CallProc.entry_pc = BVM_PRIMITIVE_ENTRY
    /\ primitive_known(CallCallee.proc_idx)
    /\ \/ CallArgc # primitive_reads(CallCallee.proc_idx)
       \/ \E k \in 1..CallArgc : CallArgs[k].tag # TAG_INT

\* C9: applying a primitive with the wrong number of arguments or with a
\* non-INT argument stops the VM with an error and pushes no result.
C9_PrimitiveMisuseIsError ==
    [][ PrimitiveMisuse
        => /\ (phase' # "exec" \/ error' = 1)
           /\ stack'.top = stack.top - CallArgc - 1 ]_vars

\* "/" applied through CALL 2 to two INTs, the divisor 0
DivisionByZeroCall ==
    /\ CallOfProc
    /\ CallProc.entry_pc = BVM_PRIMITIVE_ENTRY
    /\ CallCallee.proc_idx = PRIM_DIV
    /\ CallArgc = 2
    /\ CallArgs[1].tag = TAG_INT /\ CallArgs[2].tag = TAG_INT
    /\ CallArgs[2].i = 0

\* the DIV opcode dispatched with two INTs on top, the divisor 0
DivisionByZeroOpcode ==
    /\ Dispatch(OP_DIV)
    /\ stack.top >= 2
    /\ stack.data[stack.top].tag = TAG_INT
    /\ stack.data[stack.top - 1].tag = TAG_INT
    /\ stack.data[stack.top].i = 0

\* C10: a division with an INT divisor of 0, by the "/" primitive or by the
\* DIV opcode, ends execution with a fatal error and pushes no quotient.
C10_DivisionByZeroIsFatal ==
    [][ /\ DivisionByZeroCall
          => (phase' # "exec" /\ stack'.top = stack.top - 3)
        /\ DivisionByZeroOpcode
          => ((phase' # "exec" \/ error' = 1) /\ stack'.top <= stack.top)
      ]_vars

\* the id of the symbol whose name is exactly name, -1 when there is none
exact_symbol_id(prog, name) ==
    IF \E k \in 1..prog.symbol_count :
          prog.symbols[k].name = name
    THEN prog.symbols[CHOOSE k \in 1..prog.symbol_count :
                          prog.symbols[k].name = name].id
    ELSE -1

\* the procedures init_bvm binds: table indices 0..7 with the primitive
\* entry_pc
BoundPrimitives(prog) ==
    { i \in PRIM_ADD..PRIM_NOT :
        /\ i < prog.procedure_count
        /\ At(prog.procedures, i).entry_pc = BVM_PRIMITIVE_ENTRY }

\* every primitive the program binds has a symbol with exactly its name
PrimitivesNamed(prog) ==
    \A i \in BoundPrimitives(prog) :
        exact_symbol_id(prog, prim_name(i)) \in 0..(prog.symbol_count - 1)

\* C11: after init_bvm, for every bound primitive i the global slot at the
\* id of the symbol named exactly prim_name(i) holds PROC{i, MAX}, whatever
\* other names the symbol table holds, and no other slot is written.
C11_PrimitivesBoundByExactName ==
    [][ (phase = "init" /\ phase' = "exec" /\ PrimitivesNamed(program))
        => \A k \in 0..(program.symbol_count - 1) :
              At(envs'[1].slots, k) =
                 IF \E i \in BoundPrimitives(program) :
                       exact_symbol_id(program, prim_name(i)) = k
                 THEN ProcValue(CHOOSE i \in BoundPrimitives(program) :
                          exact_symbol_id(program, prim_name(i)) = k,
                          UINT32_MAX)
                 ELSE ZeroValue ]_vars

\* C16: LOAD_CONST of a STR constant stored as tag, u16 size N and N raw
\* bytes pushes a STR value of length N whose bytes are those N bytes.
C16_StrConstantRoundTrip ==
    [][ (/\ Dispatch(OP_LOAD_CONST)
         /\ operand_at(0).size >= 4
         /\ Operand32(0) >= 0 /\ Operand32(0) < program.constant_count
         /\ kind_of(At(program.constants, Operand32(0)).tag) = TAG_STR
         /\ stack'.top = stack.top + 1)
        => stack'.data[stack'.top] =
             StrValue(At(program.constants, Operand32(0)).size,
                      At(program.constants, Operand32(0)).data) ]_vars

\* a global slot nothing was stored in: zero-filled by calloc, which no
\* opcode tells from a NIL
UnsetSlot(v) == v.tag \in {0, TAG_NIL} /\ v.i = 0

\* C17: after init_bvm the global environment is environment 0, its parent
\* is MAX, it has exactly symbol_count slots, each unset or a primitive
\* binding, and every symbol's id is a slot index of it.
C17_GlobalEnvironmentShape ==
    [][ (phase = "init" /\ phase' = "exec")
        => /\ global_env' = 0 /\ env_count' >= 1
           /\ envs'[1].parent = UINT32_MAX
           /\ envs'[1].size = program.symbol_count
           /\ Len(envs'[1].slots) = program.symbol_count
           /\ \A k \in 1..Len(envs'[1].slots) :
                 \/ UnsetSlot(envs'[1].slots[k])
                 \/ \E i \in BoundPrimitives(program) :
                       envs'[1].slots[k] = ProcValue(i, UINT32_MAX)
           /\ \A k \in 1..program.symbol_count :
                 /\ program.symbols[k].id >= 0
                 /\ program.symbols[k].id < envs'[1].size ]_vars

\* C18: an ADD, SUB, MUL, DIV, CMP_EQ, CMP_LT or CMP_GT instruction
\* dispatched with two INT values on top of the stack pops both, pushes one
\* INT (arithmetic) or BOOL (comparison), advances pc by one and does not
\* set error.
C18_ArithmeticOpcodesExecute ==
    [][ (/\ Running /\ PcInBounds
         /\ Instr.opcode \in ArithmeticOpcodes \cup ComparisonOpcodes
         /\ stack.top >= 2
         /\ stack.data[stack.top].tag = TAG_INT
         /\ stack.data[stack.top - 1].tag = TAG_INT)
        => /\ stack'.top = stack.top - 1
           /\ stack'.data[stack'.top].tag =
                 IF Instr.opcode \in ArithmeticOpcodes THEN TAG_INT ELSE TAG_BOOL
           /\ pc' = pc + 1
           /\ error' = 0 ]_vars

\* MAKE_CLOSURE p for a procedure of the table whose free_vars are slots of
\* the current environment
CaptureInRange ==
    /\ Dispatch(OP_MAKE_CLOSURE)
    /\ procedure_in_table(Operand32(0))
    /\ ~captures_outside(At(program.procedures, Operand32(0)))

\* C19: MAKE_CLOSURE p copies current_env.slots[free_vars[k]] into slot k
\* of a new environment whose parent is current_env and pushes a PROC for
\* it; CALL enters p in an environment whose parent is that environment;
\* LOAD_CLOSURE k pushes slot k of the parent of current_env; and no step
\* but STORE_CLOSURE changes an environment other than current_env, so a
\* STORE_VAR between MAKE_CLOSURE and CALL does not reach the captured copy.
C19_CaptureByValue ==
    [][ /\ (CaptureInRange /\ stack'.top = stack.top + 1) =>
             /\ env_count' = env_count + 1
             /\ At(envs', env_count).parent = current_env
             /\ At(envs', env_count).slots =
                  [k \in 1..At(program.procedures, Operand32(0)).free_count |->
                     At(At(envs, current_env).slots,
                        At(program.procedures, Operand32(0)).free_vars[k])]
             /\ stack'.data[stack'.top] = ProcValue(Operand32(0), env_count)
        /\ (CallOfProc /\ frame_count' = frame_count + 1) =>
             /\ current_env' = env_count
             /\ At(envs', current_env').parent = CallCallee.env_idx
        /\ (/\ Dispatch(OP_LOAD_CLOSURE)
            /\ slot_in_env(At(envs, current_env).parent, Operand32(0))
            /\ stack'.top = stack.top + 1) =>
             stack'.data[stack'.top] =
                At(At(envs, At(envs, current_env).parent).slots, Operand32(0))
        /\ (phase = "exec" /\ ~Dispatch(OP_STORE_CLOSURE)) =>
             \A e \in 0..(env_count - 1) :
                e # current_env => At(envs', e) = At(envs, e) ]_vars

\* C19 witness: inside p, LOAD_CLOSURE 0 has pushed the INT 2 that the
\* global x held at MAKE_CLOSURE, while x now holds the INT 1 stored after.
C19_Witness ==
    /\ phase = "exec" /\ LastOp = OP_LOAD_CLOSURE /\ pc = last_pc + 1
    /\ frame_count = 2 /\ env_count = 3
    /\ stack.data[stack.top] = IntValue(2)
    /\ At(At(envs, global_env).slots, SYM_X) = IntValue(1)
    /\ At(envs, 1).slots = <<IntValue(2)>>
    /\ At(envs, current_env).parent = 1

\* CALL n on a PROC for a non-primitive procedure with n = arity
ArityMatchCall ==
    /\ CallOfProc
    /\ CallProc.entry_pc # BVM_PRIMITIVE_ENTRY
    /\ CallArgc = CallProc.arity

\* C20: CALL n on a PROC for a non-primitive procedure with n = arity
\* removes n + 1 values, allocates one environment with parent =
\* callee.env_idx whose slot i holds the i-th argument and whose other
\* slots are zero, pushes the frame {pc + 1, current_env, stack.top after
\* the pops}, and sets current_env to the new environment and pc to
\* entry_pc.
C20_CallEntersProcedure ==
    [][ ArityMatchCall
        => /\ phase' = "exec" /\ error' = 0
           /\ stack'.top = stack.top - CallArgc - 1
           /\ env_count' = env_count + 1
           /\ SubSeq(envs', 1, env_count) = envs
           /\ At(envs', env_count).parent = CallCallee.env_idx
           /\ Len(At(envs', env_count).slots) >= CallArgc
           /\ \A k \in 1..Len(At(envs', env_count).slots) :
                 At(envs', env_count).slots[k] =
                    IF k <= CallArgc THEN CallArgs[k] ELSE ZeroValue
           /\ frame_count' = frame_count + 1
           /\ SubSeq(frames', 1, frame_count) = SubSeq(frames, 1, frame_count)
           /\ At(frames', frame_count) =
                 [return_pc |-> pc + 1, env_idx |-> current_env,
                  stack_base |-> stack'.top]
           /\ current_env' = env_count
           /\ pc' = CallProc.entry_pc ]_vars

(***************************************************************************)
(* The loader's properties, under LoadSpec.                                *)
(***************************************************************************)
\* the section the loop is at asks for bytes past the end of the buffer
SectionExceedsBuffer ==
    \/ section.offset < 0
    \/ section.size < 0
    \/ section.offset + section.size > Len(bin)

\* C12: whatever the tag of a section-table entry, if its offset + size
\* exceeds the length of the buffer, the load fails with exit status 3 when
\* the section loop comes to it, and no Program is produced.
C12_SectionBeyondBufferFails ==
    [][ (phase = "sections" /\ section_idx < Len(sections)
           /\ SectionExceedsBuffer)
        => (phase' = "exited" /\ exit_code' = <<EXIT_READ_OUT_OF_BOUNDS>>) ]_vars

\* C13: during the load no byte outside the buffer is read, and a read
\* whose n bytes would end after the end of the buffer ends the load with
\* exit status 3, also when skip_bytes or a section seek has put cur past
\* the end.
C13_ReadsStayInBuffer ==
    /\ ~reader.beyond
    /\ reader.refused
         => (phase = "exited" /\ exit_code = <<EXIT_READ_OUT_OF_BOUNDS>>)

\* a read was refused at a section offset past the end of the buffer
C13_Witness ==
    /\ reader.refused
    /\ reader.cur > reader.end
    /\ Len(sections) > 0

\* C14: when a bytecode section loads, every instruction holds exactly
\* op_arity(opcode) operand datums, the count of the counting pass is the
\* number of instructions the second pass decoded, and the instructions
\* take up exactly the bytes of the section.
C14_OperandsMatchArity ==
    [][ (InSection({S_TAG_BYTECODE}) /\ section_idx' = section_idx + 1)
        => LET code == program'.bytecode
           IN  /\ program'.instruction_count = Len(code)
               /\ \A k \in 1..Len(code) :
                    Len(code[k].operand) = op_arity(code[k].opcode)
               /\ EncBytecode(code)
                    = SubSeq(bin, section.offset + 1,
                             section.offset + section.size) ]_vars

\* a bytecode section with operands of every kind has loaded
C14_Witness ==
    /\ phase = "sections"
    /\ program.bytecode = MixedBytecode
    /\ program.instruction_count = Len(MixedBytecode)

\* C15: a buffer of four bytes or more that does not start with 42 52 4B 54
\* makes the load exit with status 4 after the magic word alone is read:
\* no section table and no Program field is stored.
C15_WrongMagicExits ==
    [][ (phase = "magic" /\ Len(bin) >= 4
           /\ SubSeq(bin, 1, 4) # <<66, 82, 75, 84>>)
        => /\ phase' = "exited"
           /\ exit_code' = <<EXIT_INVALID_MAGIC>>
           /\ reader'.cur = 4
           /\ sections' = sections
           /\ program' = program ]_vars

\* a file whose fourth byte alone is wrong has been refused
C15_Witness ==
    /\ exit_code = <<EXIT_INVALID_MAGIC>>
    /\ Len(bin) > 4
    /\ SubSeq(bin, 1, 3) = <<66, 82, 75>>

(***************************************************************************)
(* Calls, jumps, flags and table accesses.                                 *)
(***************************************************************************)
\* a frame CALL pushed, not the entry frame, is on top and RETURN is next
ReturnToCaller ==
    /\ Dispatch(OP_RETURN)
    /\ pop_ok(stack)
    /\ TopFrame.return_pc # UINT32_MAX

\* C21: a RETURN that is not the final one pops the frame pushed by the most
\* recent CALL that has not returned: current_env becomes the environment
\* current at that CALL, pc the index of that CALL plus 1, frame_count its
\* value before that CALL; also for recursion deep enough to grow the frame
\* and environment stores past 64.
C21_CallReturnPairUp ==
    [][ ReturnToCaller
        => /\ calls # <<>>
           /\ Len(calls) = frame_count - 1
           /\ LET call == calls[Len(calls)]
              IN  /\ frame_count' = call.frames
                  /\ current_env' = call.env
                  /\ phase' = "exec" => pc' = call.pc + 1 ]_vars

\* a RETURN of the recursion went back to its caller after both stores grew
C21_Witness ==
    /\ phase = "exec" /\ LastOp = OP_RETURN /\ halted = 0
    /\ frame_count > 1
    /\ frame_capacity > FRAME_CAPACITY
    /\ env_capacity > ENV_CAPACITY

\* CALL is about to apply one of the eight primitives to as many INT
\* arguments as it takes, the divisor of "/" not 0
PrimitiveApplied ==
    /\ CallOfProc
    /\ CallProc.entry_pc = BVM_PRIMITIVE_ENTRY
    /\ CallCallee.proc_idx \in 0..7
    /\ CallArgc = (IF CallCallee.proc_idx = 7 THEN 1 ELSE 2)
    /\ \A k \in 1..CallArgc : CallArgs[k].tag = TAG_INT
    /\ CallCallee.proc_idx = 3 => CallArgs[2].i # 0

\* the quotient of two integers, truncated toward zero
Quotient(a, b) ==
    LET abs(n) == IF n < 0 THEN -n ELSE n
        q == abs(a) \div abs(b)
    IN  IF (a < 0) = (b < 0) THEN q ELSE -q

\* what the spec gives for primitive index applied to INTs a and b
PrimitiveResult(index, a, b) ==
    CASE index = 0 -> [tag |-> TAG_INT, i |-> a + b]
      [] index = 1 -> [tag |-> TAG_INT, i |-> a - b]
      [] index = 2 -> [tag |-> TAG_INT, i |-> a * b]
      [] index = 3 -> [tag |-> TAG_INT, i |-> Quotient(a, b)]
      [] index = 4 -> [tag |-> TAG_BOOL, i |-> IF a = b THEN 1 ELSE 0]
      [] index = 5 -> [tag |-> TAG_BOOL, i |-> IF a < b THEN 1 ELSE 0]
      [] index = 6 -> [tag |-> TAG_BOOL, i |-> IF a > b THEN 1 ELSE 0]
      [] index = 7 -> [tag |-> TAG_BOOL, i |-> IF a = 0 THEN 1 ELSE 0]

\* C22: CALL n on a PROC of a primitive pops the n arguments and the callee,
\* pushes one result and advances pc by 1, with frame_count, env_count and
\* current_env unchanged; on INTs a, b the result is INT(a+b), INT(a-b),
\* INT(a*b), INT(a/b), BOOL(a=b), BOOL(a<b), BOOL(a>b) for indices 0..6 and
\* BOOL(a = 0) for index 7.
C22_PrimitiveCallResult ==
    [][ PrimitiveApplied
        => /\ phase' = "exec" /\ error' = 0 /\ halted' = 0
           /\ pc' = pc + 1
           /\ stack'.top = stack.top - CallArgc
           /\ stack'.data[stack'.top]
                = PrimitiveResult(CallCallee.proc_idx, CallArgs[1].i,
                                  IF CallArgc = 2 THEN CallArgs[2].i ELSE 0)
           /\ \A k \in 1..(stack'.top - 1) : stack'.data[k] = stack.data[k]
           /\ frame_count' = frame_count /\ frames' = frames
           /\ env_count' = env_count /\ envs' = envs
           /\ current_env' = current_env ]_vars

\* "+" has been applied to INT 2 and INT 2 and left INT 4 on top
C22_Witness ==
    /\ phase = "exec" /\ LastOp = OP_CALL /\ pc = last_pc + 1
    /\ program \in PrimPrograms
    /\ At(program.bytecode, 0) = I1(OP_LOAD_VAR, PRIM_ADD)
    /\ stack.top = 1 /\ stack.data[1] = IntValue(2 + 2)

\* the spec's conditional example
ConditionalCode ==
    << I1(OP_LOAD_CONST, C_FALSE), I1(OP_JMP_FALSE, 3),
       I1(OP_LOAD_CONST, C_INT1), I1(OP_JMP, 2),
       I1(OP_LOAD_CONST, C_INT2), I0(OP_HALT) >>

\* a conditional jump is about to be dispatched with a BOOL on top
JumpOnBool(op) ==
    /\ Dispatch(op)
    /\ stack.top >= 1
    /\ stack.data[stack.top].tag = TAG_BOOL
\* the BOOL on top is true: its byte as.b is not 0
TopIsTrue == stack.data[stack.top].i % 256 # 0

\* C23: JMP_TRUE d and JMP_FALSE d pop exactly one value; pc becomes pc + d
\* when the popped BOOL is true for JMP_TRUE, false for JMP_FALSE, and
\* pc + 1 otherwise; frames, environments and the rest of the stack do not
\* change.  The program [LOAD_CONST false, JMP_FALSE 3, LOAD_CONST 1, JMP 2,
\* LOAD_CONST 2, HALT] halts with INT(2) on top.
C23_ConditionalJumps ==
    /\ [][ \A op \in {OP_JMP_TRUE, OP_JMP_FALSE} :
             JumpOnBool(op)
             => /\ phase' = "exec" /\ error' = 0 /\ halted' = 0
                /\ stack'.top = stack.top - 1
                /\ \A k \in 1..stack'.top : stack'.data[k] = stack.data[k]
                /\ pc' = IF TopIsTrue = (op = OP_JMP_TRUE)
                         THEN pc + Operand32(0) ELSE pc + 1
                /\ UNCHANGED <<frame_count, frame_capacity, frames, env_count,
                               env_capacity, envs, current_env,
                               global_env>> ]_vars
    /\ [](program.bytecode = ConditionalCode /\ halted = 1
            => stack.top = 1 /\ stack.data[1] = IntValue(2))

\* the conditional example has halted with INT(2) on top
C23_Witness ==
    /\ program.bytecode = ConditionalCode
    /\ halted = 1
    /\ stack.top = 1 /\ stack.data[1] = IntValue(2)

\* C24: JMP d sets pc to the index of the JMP plus d and changes nothing
\* else (stack, frames, environments, halted, error); with d = 0 the state
\* after the step is the state before it, JMP about to be dispatched again,
\* so neither halted nor error is ever set.
C24_JumpIsRelative ==
    [][ Dispatch(OP_JMP)
        => /\ pc' = pc + Operand32(0)
           /\ phase' = "exec" /\ exit_code' = exit_code
           /\ UNCHANGED <<program, stack, frame_count, frame_capacity, frames,
                          env_count, env_capacity, envs, current_env,
                          global_env, halted, error>>
           /\ Operand32(0) = 0
                => /\ pc' = pc
                   /\ (Dispatch(OP_JMP) /\ Operand32(0) = 0)' ]_vars

\* JMP 0 has been taken and is about to be taken again
C24_Witness ==
    /\ Dispatch(OP_JMP) /\ Operand32(0) = 0
    /\ last_pc = pc

\* C25: no instruction is dispatched with pc outside [0, instruction_count):
\* when a jump, a CALL to entry_pc, a RETURN to return_pc, the end of the
\* bytecode or an empty bytecode table leaves pc out of range, the next
\* iteration sets error and ends the loop, reading no instruction and
\* changing neither the stack nor the frames nor the environments.
C25_PcCheckedBeforeDispatch ==
    [][ (phase = "exec" /\ error = 0 /\ halted = 0
           /\ (pc < 0 \/ pc >= program.instruction_count))
        => /\ error' = 1
           /\ halted' = 0
           /\ phase' = "exec"
           /\ UNCHANGED <<pc, last_pc, calls, stack, frame_count,
                          frame_capacity, frames, env_count, env_capacity,
                          envs, current_env, global_env>> ]_vars

\* a RETURN to a return_pc past the last instruction ended with error
C25_Witness ==
    /\ phase = "exec" /\ error = 1
    /\ LastOp = OP_RETURN
    /\ pc = program.instruction_count

\* C26: halted and error are absorbing and exclude each other: once either
\* is set no instruction runs and pc, stack, frames and environments never
\* change, and no state has both set; HALT sets halted and leaves the
\* stack, frames and environments as they were, so [HALT] ends with an
\* empty stack and halted set.
C26_FlagsAbsorbing ==
    /\ [](~(halted # 0 /\ error # 0))
    /\ [][ (halted # 0 \/ error # 0)
           => UNCHANGED <<pc, last_pc, calls, stack, frame_count,
                          frame_capacity, frames, env_count, env_capacity,
                          envs, current_env, global_env, halted, error>> ]_vars
    /\ [][ Dispatch(OP_HALT)
           => /\ halted' = 1 /\ error' = 0
              /\ UNCHANGED <<pc, stack, frame_count, frame_capacity, frames,
                             env_count, env_capacity, envs, current_env,
                             global_env>> ]_vars
    /\ [](program.bytecode = <<I0(OP_HALT)>> /\ phase = "exited"
            => halted = 1 /\ stack.top = 0)

\* the program [HALT] has ended
C26_Witness ==
    /\ program.bytecode = <<I0(OP_HALT)>>
    /\ phase = "exited"
    /\ halted = 1 /\ error = 0 /\ stack.top = 0

\* the symbol id of the LOAD_VAR or STORE_VAR at pc is outside the current
\* environment
VarOutOfRange == UGe(Operand32(0), At(envs, current_env).size)

\* every environment slot other than slot s of the current environment keeps
\* its value, and no environment changes parent or size
OnlySlotChanges(s) ==
    /\ env_count' = env_count
    /\ \A e \in 0..(env_count - 1) :
          /\ At(envs', e).parent = At(envs, e).parent
          /\ At(envs', e).size = At(envs, e).size
          /\ Len(At(envs', e).slots) = Len(At(envs, e).slots)
          /\ \A i \in 0..(Len(At(envs, e).slots) - 1) :
                (e # current_env \/ i # s)
                   => At(At(envs', e).slots, i) = At(At(envs, e).slots, i)

\* C27: LOAD_VAR s and STORE_VAR s with s >= current_env.size end the
\* process with a fatal error and change neither the stack nor any
\* environment slot; with s < size LOAD_VAR pushes current_env.slots[s] and
\* changes no environment, and STORE_VAR pops one value and changes only
\* slot s of current_env.
C27_VarAccessChecked ==
    /\ [][ ((Dispatch(OP_LOAD_VAR) \/ Dispatch(OP_STORE_VAR)) /\ VarOutOfRange)
           => /\ phase' = "exited" /\ exit_code' = <<EXIT_FAILURE>>
              /\ UNCHANGED <<stack, envs, env_count, current_env, pc>> ]_vars
    /\ [][ (Dispatch(OP_LOAD_VAR) /\ ~VarOutOfRange /\ push_ok(stack))
           => /\ stack' = push_stack(stack, At(At(envs, current_env).slots,
                                                Operand32(0)))
              /\ pc' = pc + 1 /\ phase' = "exec"
              /\ UNCHANGED <<envs, env_count, current_env>> ]_vars
    /\ [][ (Dispatch(OP_STORE_VAR) /\ ~VarOutOfRange /\ pop_ok(stack)
              /\ operand_at(0).size >= 4)
           => /\ stack' = pop_stack(stack)
              /\ At(At(envs', current_env).slots, Operand32(0)) =
                    pop_value(stack)
              /\ OnlySlotChanges(Operand32(0))
              /\ pc' = pc + 1 /\ phase' = "exec"
              /\ UNCHANGED current_env ]_vars

\* a STORE_VAR outside the global environment ended the process with the
\* value it would have stored still on the stack
C27_Witness ==
    /\ phase = "exited" /\ exit_code = <<EXIT_FAILURE>>
    /\ LastOp = OP_STORE_VAR
    /\ stack.top = 1
    /\ UGe(Word32(At(program.bytecode, last_pc).operand[1].data),
           At(envs, current_env).size)

\* C28: the environment CALL allocates for a non-primitive procedure has
\* exactly arity + local_count slots for every pair of u16 values, so the
\* copy of the arity arguments into slots 0..arity-1 stays inside it.
C28_CallEnvHoldsArgsAndLocals ==
    [][ ArityMatchCall
        => /\ phase' = "exec"
           /\ env_count' = env_count + 1
           /\ At(envs', env_count).size = CallProc.arity + CallProc.local_count
           /\ Len(At(envs', env_count).slots) =
                 CallProc.arity + CallProc.local_count
           /\ \A k \in 0..(CallProc.arity - 1) :
                 slot_in_env(env_count, k)' ]_vars

\* the instruction at pc indexes a table with an index outside it
IndexOutsideTable ==
    \/ /\ Dispatch(OP_LOAD_CONST) /\ operand_at(0).size >= 4
       /\ ~(Operand32(0) >= 0 /\ Operand32(0) < program.constant_count)
    \/ /\ Dispatch(OP_MAKE_CLOSURE)
       /\ \/ ~procedure_in_table(Operand32(0))
          \/ captures_outside(At(program.procedures, Operand32(0)))
    \/ /\ Dispatch(OP_LOAD_CLOSURE) \/ Dispatch(OP_STORE_CLOSURE)
       /\ ~slot_in_env(At(envs, current_env).parent, Operand32(0))
    \/ /\ Dispatch(OP_CALL)
       /\ Operand32(0) >= 0 /\ stack.top >= Operand32(0) + 1
       /\ stack.data[stack.top - Operand32(0)].tag = TAG_PROC
       /\ ~procedure_in_table(stack.data[stack.top - Operand32(0)].proc_idx)

\* C29: every run-time access is inside the table it indexes (closure slots
\* of the parent environment, captured slots of the current environment,
\* the constant pool, the procedure table): an index outside the table
\* stops the VM with an error instead of being used.
C29_IndicesStayInTables ==
    [][ IndexOutsideTable
        => \/ error' = 1
           \/ phase' = "exited" /\ exit_code' = <<EXIT_FAILURE>> ]_vars

\* the file's section table has a section with this tag
SectionPresent(tag) == \E i \in 1..Len(sections) : sections[i].tag = tag

\* C30: for a file whose section table omits the symbol table, constant
\* pool, procedure table or bytecode section, the loaded Program has that
\* table empty (its count is 0), so the Program is determined by the file
\* contents alone.
C30_OmittedTablesEmpty ==
    phase = "init"
       => /\ ~SectionPresent(S_TAG_SYMBOL_TABLE) => program.symbol_count = 0
          /\ ~SectionPresent(S_TAG_CONSTANT_POOL) => program.constant_count = 0
          /\ ~SectionPresent(S_TAG_PROCEDURE_TABLE)
                => program.procedure_count = 0
          /\ ~SectionPresent(S_TAG_BYTECODE) => program.instruction_count = 0

==============================================================================
